---- MODULE Spec2Model ----
(***************************************************************************)
(* Model of src/app.py: the IBOV / BTC series acquisition layer.           *)
(*                                                                         *)
(*   SpecNorm  _normalize_to_level as a pure function (floating point)     *)
(*   SpecMask  _mask_url / _safe_get as pure functions                     *)
(*   SpecRun   one run of _ibov_series_impl or of btc_series, step by step *)
(*   Spec      the render pass requests against st.cache_data and a clock  *)
(***************************************************************************)
EXTENDS Integers, Sequences, FiniteSets, TLC

VARIABLES
    norm,        \* SpecNorm: [pc, proxy_df, target_last, out]
    mask,        \* SpecMask: [pc, url, params, net, safe_url]
    fn,          \* SpecRun: which function runs: "ibov" or "btc"
    pc,          \* SpecRun: position in that function
    logs,        \* SpecRun: the logs list of _ibov_series_impl
    calls,       \* SpecRun: history of adapter invocations (step, outcome)
    http,        \* SpecRun: number of physical provider calls made so far
    stooq_last,  \* SpecRun: local stooq_last of _ibov_series_impl
    ret,         \* SpecRun: the value returned to the caller
    secrets,     \* SpecRun: [BRAPI_TOKEN, ALPHA_KEY] presence, fixed at start
    odd,         \* SpecRun: provider answers so far that were neither a plain failure nor data
    now,         \* Spec: the clock (seconds)
    hour,        \* Spec: local wall-clock hour at session start
    cache,       \* Spec: st.cache_data entries, by cached function
    fetched,     \* Spec: per cached function, the times its body ran
    netCalls,    \* Spec: number of resolver runs that went to the network
    last,        \* Spec: the last request and what it returned
    adp,         \* SpecAdapter: one call of a keyed adapter [pc, name, hasKey, ans, out]
    pass,        \* SpecPass: one render pass [state, q, n, wait, got, shown, nodata, calls, keys]
    conc,        \* SpecConc: sessions requesting IBOV at the same time
    ing          \* SpecIngest: one payload made into a series [pc, adapter, payload, out]

normVars  == <<norm>>
maskVars  == <<mask>>
runVars   == <<fn, pc, logs, calls, http, stooq_last, ret, secrets, odd>>
appVars   == <<now, hour, cache, fetched, netCalls, last>>
adpVars   == <<adp>>
passVars  == <<pass>>
concVars  == <<conc>>
ingVars   == <<ing>>
vars      == <<norm, mask, fn, pc, logs, calls, http, stooq_last, ret, secrets, odd,
               now, hour, cache, fetched, netCalls, last, adp, pass, conc, ing>>

\* Python's None, where the value it stands beside is a tuple or a sequence.
None == <<>>

(***************************************************************************)
(* Floating point.  Python floats are binary floating point with           *)
(* round-to-nearest-even; Precision is the number of significand bits (53  *)
(* for a double, reduced here).  A value is <<n, d>>: the rational n/d, d  *)
(* a power of two, in lowest terms.  Exponent range is not limited.        *)
(***************************************************************************)
Precision == 4

RECURSIVE Canon(_, _)
Canon(n, d) ==
    IF n = 0 THEN <<0, 1>>
    ELSE IF d > 1 /\ n % 2 = 0 THEN Canon(n \div 2, d \div 2)
    ELSE <<n, d>>

\* The float nearest to (N / D) * (wn / wd), for N >= 0, D > 0.
RECURSIVE FRound(_, _, _, _)
FRound(N, D, wn, wd) ==
    IF N = 0 THEN <<0, 1>>
    ELSE IF N >= (2 ^ Precision) * D THEN FRound(N, 2 * D, 2 * wn, wd)
    ELSE IF N < (2 ^ (Precision - 1)) * D THEN FRound(2 * N, D, wn, 2 * wd)
    ELSE LET q  == N \div D
             r  == N % D
             up == 2 * r > D \/ (2 * r = D /\ q % 2 = 1)
             q2 == IF up THEN q + 1 ELSE q
         IN  IF wd = 1 THEN Canon(q2 * wn, 1) ELSE Canon(q2, wd)

Float(i) == FRound(i, 1, 1, 1)
FDiv(a, b) == FRound(a[1] * b[2], a[2] * b[1], 1, 1)
FMul(a, b) == FRound(a[1] * b[1], a[2] * b[2], 1, 1)

(***************************************************************************)
(* A DataFrame with a "close" column: a sequence of rows [dt, close],      *)
(* close a float.  pd.DataFrame() is the empty sequence.                   *)
(***************************************************************************)
EmptyDF == <<>>
Frame(closes) == [i \in 1..Len(closes) |-> [dt |-> i, close |-> Float(closes[i])]]

\* src/app.py:80-81
last_price(df) == IF df /= EmptyDF THEN df[Len(df)].close ELSE None

\* A close that is not a number (a CSV cell such as "N/D", which read_csv
\* keeps as a string and dropna keeps as a row)
NotNumber == <<0, 0>>
Garbled(df) == [df EXCEPT ![Len(df)].close = NotNumber]

\* src/app.py:81: float() raises ValueError
FloatRaises(df) == df /= EmptyDF /\ df[Len(df)].close = NotNumber

\* A plausible slip: the level taken from the first row instead of the last.
NormalizeFromFirstRow(proxy_df, target_last) ==
    IF proxy_df = EmptyDF THEN proxy_df
    ELSE IF target_last = None THEN proxy_df
    ELSE LET pl == proxy_df[1].close
         IN  IF pl = None \/ pl = <<0, 1>> THEN proxy_df
             ELSE LET factor == FDiv(target_last, pl)
                  IN  [i \in 1..Len(proxy_df) |->
                          [proxy_df[i] EXCEPT !.close = FMul(@, factor)]]

\* A plausible slip: a missing target treated as level 0 instead of returning early.
NormalizeNoneAsZero(proxy_df, target_last) ==
    IF proxy_df = EmptyDF THEN proxy_df
    ELSE LET t  == IF target_last = None THEN <<0, 1>> ELSE target_last
             pl == last_price(proxy_df)
         IN  IF pl = None \/ pl = <<0, 1>> THEN proxy_df
             ELSE LET factor == FDiv(t, pl)
                  IN  [i \in 1..Len(proxy_df) |->
                          [proxy_df[i] EXCEPT !.close = FMul(@, factor)]]

\* src/app.py:270-282
_normalize_to_level(proxy_df, target_last) ==
    IF proxy_df = EmptyDF THEN proxy_df
    ELSE IF target_last = None THEN proxy_df
    ELSE LET pl == last_price(proxy_df)
         IN  IF pl = None \/ pl = <<0, 1>> THEN proxy_df
             ELSE LET factor == FDiv(target_last, pl)
                  IN  [i \in 1..Len(proxy_df) |->
                          [proxy_df[i] EXCEPT !.close = FMul(@, factor)]]

(***************************************************************************)
(* SpecNorm: _normalize_to_level applied to bounded inputs.                *)
(***************************************************************************)
MaxRows  == 3      \* longest proxy series drawn
MaxClose == 5      \* closes are drawn from 0..MaxClose
MaxTarget == 15    \* targets are drawn from 0..MaxTarget, and None

Closes   == 0..MaxClose
SeqsUpTo(S, n) == UNION {[1..k -> S] : k \in 0..n}

NormIdle == [pc |-> "idle", proxy_df |-> EmptyDF, target_last |-> None, out |-> EmptyDF]

InitNorm ==
    \E cs \in SeqsUpTo(Closes, MaxRows), t \in {None} \cup {Float(c) : c \in 0..MaxTarget} :
        norm = [pc |-> "call", proxy_df |-> Frame(cs), target_last |-> t, out |-> EmptyDF]

NormalizeCall ==
    /\ norm.pc = "call"
    /\ norm' = [norm EXCEPT !.pc = "done",
                            !.out = _normalize_to_level(norm.proxy_df, norm.target_last)]
    /\ UNCHANGED <<maskVars, runVars, appVars, adpVars, passVars, concVars, ingVars>>

\* src/app.py:272-276: the call of last_price in _normalize_to_level raises
NormalizeRaises(proxy_df, target_last) ==
    proxy_df /= EmptyDF /\ target_last /= None /\ FloatRaises(proxy_df)

(***************************************************************************)
(* Texts.  A text (response body, exception message, note) is [kind,       *)
(* tokenAt]: what it says, and the offset at which the brapi token occurs  *)
(* in it (-1: it does not).                                                *)
(***************************************************************************)
TokenValue == "BRAPI-TOKEN-VALUE"
TokenLen   == 22    \* length of the configured token
EchoAt     == 40    \* where an error body that quotes the token has it
NoteLen    == 120   \* str(excerpt)[:120]
ExcerptLen == 500   \* r.text[:500]
\* "EXCEPTION: HTTPSConnectionPool(host='brapi.dev', port=443): Max retries
\* exceeded with url: /api/quote/IBOV?range=1mo&interval=1d&token=<token> ..."
ExcTokenAt == 135

Text(kind, tokenAt) == [kind |-> kind, tokenAt |-> tokenAt]
Plain(kind) == Text(kind, -1)
\* text[:n]
Cut(text, n) ==
    IF text.tokenAt >= 0 /\ text.tokenAt + TokenLen > n THEN Plain(text.kind) ELSE text

(***************************************************************************)
(* URLs.  A URL is [base, query]: the part before "?" and the query string *)
(* as its sequence of <<name, value>> pairs.  A params dict is a sequence  *)
(* of pairs with distinct names, in insertion order.                       *)
(***************************************************************************)
MaskText == "****"
Url(base, query) == [base |-> base, query |-> query]
NoUrl == Url("", <<>>)

\* str.lower() on the parameter names that occur
lower(k) ==
    CASE k \in {"apikey", "apiKey", "APIKEY"}  -> "apikey"
      [] k \in {"api_key", "API_KEY"}          -> "api_key"
      [] k \in {"key", "Key"}                  -> "key"
      [] k \in {"token", "Token", "TOKEN"}     -> "token"
      [] OTHER                                 -> k

CredentialNames == {"apikey", "api_key", "key", "token"}

\* A plausible slip: the name compared without lower()
IsCredentialCaseSensitive(k) == k \in CredentialNames

\* src/app.py:89
IsCredential(k) == lower(k) \in CredentialNames

\* urllib.parse.parse_qsl: the pairs in order, blank values dropped
parse_qsl(query) == SelectSeq(query, LAMBDA kv : kv[2] /= "")

\* dict(pairs): one entry per name, placed where the name first occurs,
\* holding the value of its last occurrence
RECURSIVE LastValue(_, _)
LastValue(pairs, k) ==
    IF pairs[Len(pairs)][1] = k THEN pairs[Len(pairs)][2]
    ELSE LastValue(SubSeq(pairs, 1, Len(pairs) - 1), k)

Put(d, kv) == IF \E i \in 1..Len(d) : d[i][1] = kv[1] THEN d ELSE Append(d, kv)

RECURSIVE DictOf(_)
DictOf(pairs) ==
    IF pairs = <<>> THEN <<>>
    ELSE Put(DictOf(SubSeq(pairs, 1, Len(pairs) - 1)), pairs[Len(pairs)])

Entries(d, pairs) == [i \in 1..Len(d) |-> <<d[i][1], LastValue(pairs, d[i][1])>>]
dict(pairs) == Entries(DictOf(pairs), pairs)

\* src/app.py:88-90
MaskEntries(q) == [i \in 1..Len(q) |-> IF IsCredential(q[i][1]) THEN <<q[i][1], MaskText>> ELSE q[i]]

\* src/app.py:83-93 (urlsplit does not raise on a URL that requests prepared
\* or fetched, the only URLs _mask_url is given)
_mask_url(url) == Url(url.base, MaskEntries(dict(parse_qsl(url.query))))

\* requests.Request("GET", url, params=params).prepare(): raises on a URL
\* without scheme or host; otherwise the params are appended to the query
Bases == {"https://brapi.dev/api/quote/IBOV", "https://stooq.com/q/d/l/", "brapi.dev/api/quote/IBOV"}
Preparable(url) == url /= "brapi.dev/api/quote/IBOV"
PreparedUrl(url, params) == Url(url, params)

\* What REQ.get does: it raises, or returns a response [status, text]
Raises == [kind |-> "exc", status |-> "None", text |-> Plain("EXCEPTION")]
Response(status, text) == [kind |-> "resp", status |-> status, text |-> text]

\* [r, status, safe_url, excerpt], given the URL as it is recorded
SafeGetResult(url, net, safe_url) ==
    IF Preparable(url) /\ net.kind /= "exc"
    THEN [r |-> net, status |-> net.status, safe_url |-> safe_url,
          excerpt |-> Cut(net.text, ExcerptLen)]
    ELSE [r |-> None, status |-> "None", safe_url |-> safe_url, excerpt |-> net.text]

\* src/app.py:95-112
_safe_get(url, params, net) ==
    SafeGetResult(url, net, IF Preparable(url) THEN _mask_url(PreparedUrl(url, params))
                            ELSE Url(url, <<>>))

(***************************************************************************)
(* SpecMask: _mask_url on URLs with repeated names, and _safe_get on the   *)
(* program's kind of call (credentials travel in params).                  *)
(***************************************************************************)
MaxParams == 2     \* longest query / params drawn

ParamNames  == {"apikey", "apiKey", "API_KEY", "Key", "token", "TOKEN", "range", "s"}
SecretValues == {"SECRET-A", "SECRET-B"}
PublicValues == {"1mo", "bvsp"}
Pairs == {<<k, v>> : k \in {n \in ParamNames : lower(n) \in CredentialNames},
                     v \in SecretValues \cup {""}}
         \cup {<<k, v>> : k \in {n \in ParamNames : lower(n) \notin CredentialNames},
                          v \in PublicValues \cup {""}}
DistinctNames(q) == \A i, j \in 1..Len(q) : i /= j => q[i][1] /= q[j][1]

InitMask ==
    \/ \E q \in SeqsUpTo(Pairs, MaxParams) :
          mask = [pc |-> "mask", url |-> "https://brapi.dev/api/quote/IBOV",
                  params |-> q, net |-> "ok", safe_url |-> None]
    \/ \E u \in Bases, q \in {x \in SeqsUpTo(Pairs, MaxParams) : DistinctNames(x)},
          n \in {"ok", "exc"} :
          mask = [pc |-> "safe_get", url |-> u, params |-> q, net |-> n, safe_url |-> None]

MaskCall ==
    /\ mask.pc = "mask"
    /\ mask' = [mask EXCEPT !.pc = "done",
                            !.safe_url = _mask_url(Url(mask.url, mask.params))]
    /\ UNCHANGED <<normVars, runVars, appVars, adpVars, passVars, concVars, ingVars>>

SafeGetCall ==
    /\ mask.pc = "safe_get"
    /\ mask' = [mask EXCEPT
                  !.pc = "done",
                  !.safe_url = _safe_get(mask.url, mask.params,
                                         IF mask.net = "exc" THEN Raises
                                         ELSE Response("200", Plain("ok"))).safe_url]
    /\ UNCHANGED <<normVars, runVars, appVars, adpVars, passVars, concVars, ingVars>>

(***************************************************************************)
(* Provider answers.                                                       *)
(*                                                                         *)
(* An answer is what one GET or one library call does: Raises, or a        *)
(* Response whose text says which of the cases the code tells apart it is. *)
(***************************************************************************)
Sample      == Frame(<<3, 5>>)      \* a series of the primary instrument
ProxySample == Frame(<<1, 2>>)      \* a series of BOVA11

\* One attempt record (src/app.py:300-301 and the like)
Record(provider, step, ok, rows, status, note, url) ==
    [provider |-> provider, step |-> step, ok |-> ok, rows |-> rows,
     status |-> status, note |-> note, url |-> url]

(***************************************************************************)
(* _yahoo_chart: answers ans[1] (query1) and ans[2] (query2).              *)
(*   "exc"       REQ.get or r.json() raises                                *)
(*   "noresult"  chart.result is missing or empty                          *)
(*   "nodata"    no timestamp or no close list                             *)
(*   "allnull"   timestamps and closes, every close null                   *)
(*   "data"      timestamps and closes                                     *)
(***************************************************************************)
YahooKinds == {"exc", "noresult", "nodata", "allnull", "data"}
YahooAnswer(kind) ==
    IF kind = "exc" THEN Raises
    ELSE Response(IF kind = "noresult" THEN "404" ELSE "200", Plain(kind))
YahooHosts == <<"https://query1.finance.yahoo.com", "https://query2.finance.yahoo.com">>
YahooParams(range_, interval) ==
    <<<<"range", range_>>, <<"interval", interval>>, <<"includePrePost", "false">>,
      <<"region", "BR">>, <<"lang", "pt-BR">>, <<"useYfid", "true">>, <<"events", "history">>>>

\* src/app.py:203-222, one host's iteration given url and safe_url:
\* [returns, df, url, status, note]
YahooHostResult(a, url, safe_url, sample) ==
    CASE a.kind = "exc" ->
           [returns |-> FALSE, df |-> EmptyDF, url |-> Url(url, <<>>),
            status |-> "None", note |-> Plain("EXC")]
      [] a.text.kind \in {"noresult", "nodata"} ->
           [returns |-> FALSE, df |-> EmptyDF, url |-> safe_url,
            status |-> a.status, note |-> Cut(a.text, 200)]
      [] a.text.kind = "allnull" ->
           [returns |-> TRUE, df |-> EmptyDF, url |-> safe_url,
            status |-> a.status, note |-> Plain("ok")]
      [] OTHER ->
           [returns |-> TRUE, df |-> sample, url |-> safe_url,
            status |-> a.status, note |-> Plain("ok")]

YahooUrl(h, symbol) == YahooHosts[h] \o "/v8/finance/chart/" \o symbol

YahooHost(h, symbol, range_, interval, a, sample) ==
    YahooHostResult(a, YahooUrl(h, symbol),
                    _mask_url(PreparedUrl(YahooUrl(h, symbol), YahooParams(range_, interval))),
                    sample)

\* The first host that returns, else last_err: [df, url, status, note, hosts],
\* hosts the number of GETs
YahooReturn(h, n) ==
    [df |-> h.df, url |-> h.url, status |-> h.status, note |-> h.note, hosts |-> n]

YahooFirst(h1, h2) == IF h1.returns THEN YahooReturn(h1, 1) ELSE YahooReturn(h2, 2)

\* src/app.py:198-223
_yahoo_chart(symbol, range_, interval, ans, sample) ==
    YahooFirst(YahooHost(1, symbol, range_, interval, ans[1], sample),
               YahooHost(2, symbol, range_, interval, ans[2], sample))

(***************************************************************************)
(* _stooq_ibov_daily: answers ans[1] (stooq.com) and ans[2] (stooq.pl).    *)
(*   "exc"       REQ.get raises (_safe_get returns no response)            *)
(*   "http"      a status other than 200, or an empty body                 *)
(*   "nocols"    a body without the Date and Close columns                 *)
(*   "parseexc"  read_csv or to_datetime raises                            *)
(*   "allnull"   the columns, no complete row                              *)
(*   "badclose"  the columns and rows, the last Close not a number         *)
(*   "data"      the columns and rows                                      *)
(***************************************************************************)
StooqKinds == {"exc", "http", "nocols", "parseexc", "allnull", "badclose", "data"}
StooqAnswer(kind) ==
    IF kind = "exc" THEN Raises
    ELSE Response(IF kind = "http" THEN "500" ELSE "200", Plain(kind))
StooqHosts == <<"https://stooq.com", "https://stooq.pl">>
StooqParams(symbol) == <<<<"s", symbol>>, <<"i", "d">>>>

\* src/app.py:232-240, one host's iteration given what _safe_get returned
StooqHostResult(a, got, sample) ==
    CASE a.kind = "exc" \/ got.status /= "200" ->
           [returns |-> FALSE, df |-> EmptyDF, status |-> got.status, url |-> got.safe_url]
      [] a.text.kind \in {"nocols", "parseexc"} ->
           [returns |-> FALSE, df |-> EmptyDF, status |-> got.status, url |-> got.safe_url]
      [] a.text.kind = "allnull" ->
           [returns |-> TRUE, df |-> EmptyDF, status |-> got.status, url |-> got.safe_url]
      [] a.text.kind = "badclose" ->
           [returns |-> TRUE, df |-> Garbled(sample), status |-> got.status, url |-> got.safe_url]
      [] OTHER ->
           [returns |-> TRUE, df |-> sample, status |-> got.status, url |-> got.safe_url]

StooqHost(h, a, symbol, sample) ==
    StooqHostResult(a, _safe_get(StooqHosts[h] \o "/q/d/l/", StooqParams(symbol), a), sample)

\* [df, status, url, note, hosts]
StooqReturn(h, n) ==
    [df |-> h.df, status |-> h.status, url |-> h.url, note |-> Plain("ok"), hosts |-> n]

StooqFirst(h1, h2) ==
    IF h1.returns THEN StooqReturn(h1, 1)
    ELSE IF h2.returns THEN StooqReturn(h2, 2)
    ELSE [df |-> EmptyDF, status |-> "None", url |-> NoUrl,
          note |-> Plain("sem resposta valida do Stooq"), hosts |-> 2]

\* src/app.py:225-243
_stooq_ibov_daily(ans) ==
    StooqFirst(StooqHost(1, ans[1], "bvsp", Sample), StooqHost(2, ans[2], "bvsp", Sample))

(***************************************************************************)
(* _brapi_daily_series: one answer per combo.                              *)
(*   "exc"        REQ.get raises; the message quotes the request URL       *)
(*   "badjson"    r.json() raises                                          *)
(*   "nocandles"  no historicalDataPrice                                   *)
(*   "echo"       an error body that quotes the token it was sent          *)
(*   "allnan"     candles, no numeric close                                *)
(*   "data"       candles                                                  *)
(***************************************************************************)
BrapiKinds == {"exc", "badjson", "nocandles", "echo", "allnan", "data"}
BrapiAnswer(kind, hasToken) ==
    CASE kind = "exc" ->
           [Raises EXCEPT !.text = Text("EXCEPTION", IF hasToken THEN ExcTokenAt ELSE -1)]
      [] kind = "echo" ->
           Response("401", Text("body", IF hasToken THEN EchoAt ELSE -1))
      [] OTHER -> Response("200", Plain(kind))
BrapiCombos == <<<<"1mo", "1d", <<"brapi", "1mo/1d">>>>, <<"3mo", "1d", <<"brapi", "3mo/1d">>>>>>

\* src/app.py:249-250
BrapiParams(i, hasToken) ==
    <<<<"range", BrapiCombos[i][1]>>, <<"interval", BrapiCombos[i][2]>>>>
    \o (IF hasToken THEN <<<<"token", TokenValue>>>> ELSE <<>>)

\* src/app.py:252-268, what is yielded given what _safe_get returned
BrapiYield(i, a, got, sample) ==
    [df    |-> IF a.kind /= "exc" /\ a.text.kind = "data" THEN sample ELSE None,
     label |-> BrapiCombos[i][3],
     meta  |-> [status |-> got.status, url |-> got.safe_url,
                note |-> Cut(IF a.kind /= "exc" /\ a.text.kind = "badjson"
                             THEN Plain("EXC json") ELSE got.excerpt, NoteLen)]]

\* src/app.py:245-268, one iteration of the generator: [df, label, meta]
_brapi_daily_series(ticker, i, a, hasToken, sample) ==
    BrapiYield(i, a, _safe_get("https://brapi.dev/api/quote/" \o ticker,
                               BrapiParams(i, hasToken), a), sample)

(***************************************************************************)
(* yfinance: one yf.download and what follows it (src/app.py:306-316,      *)
(* 318-328).                                                               *)
(*   "exc"      yf.download raises                                         *)
(*   "empty"    an empty frame (yfinance reports its own failures so)      *)
(*   "allnan"   rows, none with a close                                    *)
(*   "badcols"  rows, but no "Close" column to rename and select           *)
(*   "data"     rows with closes                                           *)
(***************************************************************************)
YfKinds == {"exc", "empty", "allnan", "badcols", "data"}
YfUrl == Url("yfinance", <<>>)
YfRecord(step, ok, rows) == Record("YF", step, ok, rows, "-", Plain(""), YfUrl)
YfExcRecord(step) == Record("YF", step, FALSE, 0, "EXC", Plain("str(e)"), YfUrl)

\* [recs, df]: the records appended, and the frame returned (EmptyDF: none)
YfAttempt(step, kind) ==
    CASE kind = "exc"     -> [recs |-> <<YfExcRecord(step)>>, df |-> EmptyDF]
      [] kind = "empty"   -> [recs |-> <<YfRecord(step, FALSE, 0)>>, df |-> EmptyDF]
      [] kind = "allnan"  -> [recs |-> <<YfRecord(step, TRUE, Len(Sample))>>, df |-> EmptyDF]
      [] kind = "badcols" -> [recs |-> <<YfRecord(step, TRUE, Len(Sample)), YfExcRecord(step)>>,
                              df |-> EmptyDF]
      [] OTHER            -> [recs |-> <<YfRecord(step, TRUE, Len(Sample))>>, df |-> Sample]

(***************************************************************************)
(* The BOVA11 Stooq block, one host (src/app.py:364-381).                  *)
(***************************************************************************)
ProxyStooqLabel == <<"proxy", "BOVA11", "diario">>

ProxyStooqExc(url) ==
    Record("Stooq", ProxyStooqLabel, FALSE, 0, "EXC", Plain("str(e)"), Url(url, <<>>))
ProxyStooqOk(got) ==
    Record("Stooq", ProxyStooqLabel, TRUE, Len(ProxySample), got.status, Plain("ok"), got.safe_url)

\* src/app.py:368-381 given what _safe_get returned: [recs, df]
ProxyStooqResult(a, url, got, target_last) ==
    CASE a.kind = "exc" \/ got.status /= "200" -> [recs |-> <<>>, df |-> EmptyDF]
      [] a.text.kind = "nocols" -> [recs |-> <<>>, df |-> EmptyDF]
      [] a.text.kind = "parseexc" -> [recs |-> <<ProxyStooqExc(url)>>, df |-> EmptyDF]
      [] a.text.kind = "badclose" ->
           IF NormalizeRaises(Garbled(ProxySample), target_last)
           THEN [recs |-> <<ProxyStooqOk(got), ProxyStooqExc(url)>>, df |-> EmptyDF]
           ELSE [recs |-> <<ProxyStooqOk(got)>>, df |-> Garbled(ProxySample)]
      [] a.text.kind = "allnull" ->
           [recs |-> <<Record("Stooq", ProxyStooqLabel, FALSE, 0, got.status,
                              Plain("vazio"), got.safe_url)>>,
            df |-> EmptyDF]
      [] OTHER ->
           [recs |-> <<ProxyStooqOk(got)>>, df |-> _normalize_to_level(ProxySample, target_last)]

ProxyStooqHost(h, a, target_last) ==
    ProxyStooqResult(a, StooqHosts[h] \o "/q/d/l/",
                     _safe_get(StooqHosts[h] \o "/q/d/l/", StooqParams("bova11.sa"), a),
                     target_last)

(***************************************************************************)
(* Alpha Vantage crypto and Binance (btc_series).                          *)
(*   "exc"    REQ.get or .json() raises                                    *)
(*   "nots"   no time-series key (rate limit note, error message)          *)
(*   "allnan" a time series with no numeric close                          *)
(*   "data"   a time series                                                *)
(***************************************************************************)
AvKinds == {"exc", "nots", "allnan", "data"}

\* src/app.py:156-180: [df, src, gets]
av_crypto_series(hasKey, k1, k2) ==
    IF ~hasKey THEN [df |-> EmptyDF, src |-> "no-key", gets |-> 0]
    ELSE IF k1 = "data" THEN [df |-> Sample, src |-> "intraday", gets |-> 1]
    ELSE CASE k2 = "data"   -> [df |-> Sample, src |-> "daily", gets |-> 2]
           [] k2 = "allnan" -> [df |-> EmptyDF, src |-> "daily", gets |-> 2]
           [] OTHER         -> [df |-> EmptyDF, src |-> "empty", gets |-> 2]

\*   "exc" REQ.get or .json() raises; "notlist" an error object; "emptylist" [];
\*   "badrow" a kline that float() or indexing rejects; "data" klines
BinanceKinds == {"exc", "notlist", "emptylist", "badrow", "data"}

\* src/app.py:186-195: [raised, df, src]
BinanceFallback(kind) ==
    IF kind = "data"
    THEN [raised |-> FALSE, df |-> Sample, src |-> <<"Binance", "(USDT~USD)">>]
    ELSE [raised |-> FALSE, df |-> EmptyDF, src |-> None]

(***************************************************************************)
(* The adapters that read a credential.  Each returns [df, src, gets]: the *)
(* series or list it returns (EmptyDF: an empty one), the label or kind it *)
(* returns beside it ("" where it returns none), and the GETs it made.     *)
(***************************************************************************)
\* src/app.py:115-139
av_fx_intraday(hasKey, k1, k2) ==
    IF ~hasKey THEN [df |-> EmptyDF, src |-> "no-key", gets |-> 0]
    ELSE IF k1 = "data" THEN [df |-> Sample, src |-> "intraday", gets |-> 1]
    ELSE CASE k2 = "data"   -> [df |-> Sample, src |-> "daily", gets |-> 2]
           [] k2 = "allnan" -> [df |-> EmptyDF, src |-> "daily", gets |-> 2]
           [] OTHER         -> [df |-> EmptyDF, src |-> "empty", gets |-> 2]

\* src/app.py:141-154
av_equity_intraday(hasKey, k) ==
    IF ~hasKey THEN [df |-> EmptyDF, src |-> "", gets |-> 0]
    ELSE IF k = "data" THEN [df |-> Sample, src |-> "", gets |-> 1]
    ELSE [df |-> EmptyDF, src |-> "", gets |-> 1]

\*   "exc" REQ.get or .json() raises; "error" a JSON object with an error
\*   message; "null" the JSON null; "data" the JSON list asked for
FmpKinds == {"exc", "error", "null", "data"}

\* src/app.py:418-424: what .json() gave is returned as it is
fmp_quotes(hasKey, k) ==
    IF ~hasKey THEN [df |-> EmptyDF, src |-> "list", gets |-> 0]
    ELSE CASE k = "exc"   -> [df |-> EmptyDF, src |-> "list", gets |-> 1]
           [] k = "error" -> [df |-> <<"Error Message">>, src |-> "dict", gets |-> 1]
           [] k = "null"  -> [df |-> EmptyDF, src |-> "None", gets |-> 1]
           [] OTHER       -> [df |-> <<"quote">>, src |-> "list", gets |-> 1]

\* src/app.py:426-433: the first element of a non-empty list, else {}
fmp_profile(hasKey, k) ==
    IF ~hasKey THEN [df |-> EmptyDF, src |-> "dict", gets |-> 0]
    ELSE IF k = "data" THEN [df |-> <<"mktCap">>, src |-> "dict", gets |-> 1]
    ELSE [df |-> EmptyDF, src |-> "dict", gets |-> 1]

\*   "exc" REQ.get or .json() raises, or the body is not an object;
\*   "noarticles" an object without articles; "data" articles
NewsKinds == {"exc", "noarticles", "data"}

\* src/app.py:470-482
get_newsapi_news(hasKey, k) ==
    IF ~hasKey THEN [df |-> EmptyDF, src |-> "list", gets |-> 0]
    ELSE IF k = "data" THEN [df |-> <<"article">>, src |-> "list", gets |-> 1]
    ELSE [df |-> EmptyDF, src |-> "list", gets |-> 1]

\* src/app.py:248-268, one iteration of _brapi_daily_series as the adapters
\* above are given: the GET of line 251 is made with or without the token
BrapiIteration(hasToken, i, k) ==
    [df   |-> LET r == _brapi_daily_series("IBOV", i, BrapiAnswer(k, hasToken), hasToken, Sample)
              IN  IF r.df = None THEN EmptyDF ELSE r.df,
     src  |-> BrapiCombos[i][3][2],
     gets |-> 1]

(***************************************************************************)
(* SpecRun: one run of _ibov_series_impl, or of the body of btc_series.    *)
(*                                                                         *)
(* pc is <<block, i>>: the block of the function and the iteration of its  *)
(* loop, <<"raised", 0>> once an exception has left the function.  calls   *)
(* is the history of adapter invocations: [step, aux, got], step the place *)
(* of the adapter's provider step in the configured order, aux TRUE for    *)
(* the fetch of the normalisation target (src/app.py:345), got what the    *)
(* invocation yielded: "data" (a non-empty frame), "empty" or "error".     *)
(* odd counts the invocations that failed otherwise than by the provider's *)
(* plainest failure.                                                       *)
(* (Labels are kept as their words; the source's non-ASCII letters are     *)
(* written in ASCII.)                                                      *)
(***************************************************************************)
MaxOdd == 1     \* failures per run that are not the provider's plainest

YahooCombos ==
    <<<<"1d", "1m", <<"YahooChart", "1d/1m">>>>, <<"1d", "5m", <<"YahooChart", "1d/5m">>>>,
      <<"1d", "15m", <<"YahooChart", "1d/15m">>>>, <<"5d", "30m", <<"YahooChart", "5d/30m">>>>,
      <<"1mo", "1d", <<"YahooChart", "1mo/1d">>>>, <<"3mo", "1d", <<"YahooChart", "3mo/1d">>>>,
      <<"6mo", "1d", <<"YahooChart", "6mo/1d">>>>>>
YfIntervals == <<"1m", "5m", "15m", "30m", "60m">>
YfPeriods   == <<"1mo", "3mo">>
ProxyYahooCombos ==
    [i \in 1..6 |-> <<YahooCombos[i][1], YahooCombos[i][2],
                      <<"proxy", "BOVA11">> \o YahooCombos[i][3]>>]

Got(df, returned) == IF df /= EmptyDF THEN "data" ELSE IF returned THEN "empty" ELSE "error"
Call(step, aux, got) == [step |-> step, aux |-> aux, got |-> got]
Done == <<"done", 0>>

\* return df, src, logs
Return(df, src) == pc' = Done /\ ret' = [df |-> df, src |-> src]
Goto(block, i)  == pc' = <<block, i>> /\ UNCHANGED ret

\* A plausible slip: the primary Stooq block left out
NextBlockWithoutStooq(block) ==
    CASE block = "yahoo"       -> "yf_intraday"
      [] block = "yf_intraday" -> "yf_daily"
      [] block = "yf_daily"    -> "brapi"
      [] block = "stooq"       -> "brapi"
      [] block = "brapi"       -> "target"
      [] block = "target"      -> "proxy_yahoo"
      [] block = "proxy_yahoo" -> "proxy_stooq"
      [] block = "proxy_stooq" -> "proxy_brapi"
      [] block = "proxy_brapi" -> "exhausted"
      [] block = "av"          -> "binance"

\* A plausible slip: the brapi block placed before the Stooq block
NextBlockBrapiFirst(block) ==
    CASE block = "yahoo"       -> "yf_intraday"
      [] block = "yf_intraday" -> "yf_daily"
      [] block = "yf_daily"    -> "brapi"
      [] block = "brapi"       -> "stooq"
      [] block = "stooq"       -> "target"
      [] block = "target"      -> "proxy_yahoo"
      [] block = "proxy_yahoo" -> "proxy_stooq"
      [] block = "proxy_stooq" -> "proxy_brapi"
      [] block = "proxy_brapi" -> "exhausted"
      [] block = "av"          -> "binance"

\* The block that follows a block in the text of the function
\* (src/app.py:297-393, 184-195)
NextBlock(block) ==
    CASE block = "yahoo"       -> "yf_intraday"
      [] block = "yf_intraday" -> "yf_daily"
      [] block = "yf_daily"    -> "stooq"
      [] block = "stooq"       -> "brapi"
      [] block = "brapi"       -> "target"
      [] block = "target"      -> "proxy_yahoo"
      [] block = "proxy_yahoo" -> "proxy_stooq"
      [] block = "proxy_stooq" -> "proxy_brapi"
      [] block = "proxy_brapi" -> "exhausted"
      [] block = "av"          -> "binance"

\* What every step does besides moving on: gets GETs, recs appended to logs
Attempt(plain, gets, recs, call) ==
    /\ odd + (IF plain \/ call.got = "data" THEN 0 ELSE 1) <= MaxOdd
    /\ odd' = odd + (IF plain \/ call.got = "data" THEN 0 ELSE 1)
    /\ http' = http + gets
    /\ logs' = logs \o recs
    /\ calls' = Append(calls, call)

InitRun ==
    /\ fn \in {"ibov", "btc"}
    /\ secrets \in [BRAPI_TOKEN : BOOLEAN, ALPHA_KEY : BOOLEAN]
    /\ ~(IF fn = "ibov" THEN secrets.ALPHA_KEY ELSE secrets.BRAPI_TOKEN)  \* the key fn does not read
    /\ pc = IF fn = "ibov" THEN <<"yahoo", 1>> ELSE <<"av", 1>>
    /\ logs = <<>> /\ calls = <<>> /\ http = 0
    /\ stooq_last = None /\ ret = None /\ odd = 0

\* src/app.py:299-301 and 356-358
YahooRecord(label, r) ==
    Record("YahooChart", label, r.df /= EmptyDF, Len(r.df), r.status, r.note, r.url)

\* src/app.py:297-302, one iteration
YahooStep ==
    /\ fn = "ibov" /\ pc[1] = "yahoo"
    /\ \E k1, k2 \in YahooKinds :
         \E r \in {_yahoo_chart("^BVSP", YahooCombos[pc[2]][1], YahooCombos[pc[2]][2],
                                <<YahooAnswer(k1), YahooAnswer(k2)>>, Sample)} :
            /\ r.hosts = 1 => k2 = "exc"
            /\ Attempt(r.note = Plain("EXC"), r.hosts, <<YahooRecord(YahooCombos[pc[2]][3], r)>>,
                       Call(1, FALSE, Got(r.df, r.note = Plain("ok"))))
            /\ IF r.df /= EmptyDF THEN Return(r.df, YahooCombos[pc[2]][3])
               ELSE IF pc[2] < Len(YahooCombos) THEN Goto("yahoo", pc[2] + 1)
               ELSE Goto(NextBlock("yahoo"), 1)
    /\ UNCHANGED <<fn, stooq_last, secrets, normVars, maskVars, appVars, adpVars, passVars, concVars, ingVars>>

\* src/app.py:305-316, one iteration
YfIntradayStep ==
    /\ fn = "ibov" /\ pc[1] = "yf_intraday"
    /\ \E k \in YfKinds :
         \E r \in {YfAttempt(<<"^BVSP", "intraday", YfIntervals[pc[2]]>>, k)} :
            /\ Attempt(k = "empty", 1, r.recs,
                       Call(2, FALSE, Got(r.df, k \in {"empty", "allnan"})))
            /\ IF r.df /= EmptyDF
               THEN Return(r.df, <<"Yahoo", "(yfinance)", "^BVSP", YfIntervals[pc[2]]>>)
               ELSE IF pc[2] < Len(YfIntervals) THEN Goto("yf_intraday", pc[2] + 1)
               ELSE Goto(NextBlock("yf_intraday"), 1)
    /\ UNCHANGED <<fn, stooq_last, secrets, normVars, maskVars, appVars, adpVars, passVars, concVars, ingVars>>

\* src/app.py:317-328, one iteration
YfDailyStep ==
    /\ fn = "ibov" /\ pc[1] = "yf_daily"
    /\ \E k \in YfKinds :
         \E r \in {YfAttempt(<<"^BVSP", "diario", YfPeriods[pc[2]]>>, k)} :
            /\ Attempt(k = "empty", 1, r.recs,
                       Call(3, FALSE, Got(r.df, k \in {"empty", "allnan"})))
            /\ IF r.df /= EmptyDF
               THEN Return(r.df, <<"Yahoo", "(yfinance)", "^BVSP", YfPeriods[pc[2]]>>)
               ELSE IF pc[2] < Len(YfPeriods) THEN Goto("yf_daily", pc[2] + 1)
               ELSE Goto(NextBlock("yf_daily"), 1)
    /\ UNCHANGED <<fn, stooq_last, secrets, normVars, maskVars, appVars, adpVars, passVars, concVars, ingVars>>

\* src/app.py:330-335
StooqStep ==
    /\ fn = "ibov" /\ pc[1] = "stooq"
    /\ \E k1, k2 \in StooqKinds :
         \E r \in {_stooq_ibov_daily(<<StooqAnswer(k1), StooqAnswer(k2)>>)} :
            /\ r.hosts = 1 => k2 = "exc"
            /\ Attempt(r.note /= Plain("ok"), r.hosts,
                       <<Record("Stooq", <<"bvsp", "diario">>, r.df /= EmptyDF, Len(r.df),
                                r.status, r.note, r.url)>>,
                       Call(4, FALSE, Got(r.df, r.note = Plain("ok"))))
            /\ IF r.df /= EmptyDF THEN Return(r.df, <<"Stooq", "diario", "(bvsp)">>)
               ELSE Goto(NextBlock("stooq"), 1)
    /\ UNCHANGED <<fn, stooq_last, secrets, normVars, maskVars, appVars, adpVars, passVars, concVars, ingVars>>

\* src/app.py:339-341 and 385-387
BrapiRecord(label, r) ==
    Record("brapi", label, r.df /= None, IF r.df /= None THEN Len(r.df) ELSE 0,
           r.meta.status, r.meta.note, r.meta.url)

\* src/app.py:338-342, one iteration
BrapiStep ==
    /\ fn = "ibov" /\ pc[1] = "brapi"
    /\ \E k \in BrapiKinds :
         \E r \in {_brapi_daily_series("IBOV", pc[2], BrapiAnswer(k, secrets.BRAPI_TOKEN),
                                       secrets.BRAPI_TOKEN, Sample)} :
            /\ Attempt(k = "exc", 1, <<BrapiRecord(r.label, r)>>,
                       Call(5, FALSE, IF r.df /= None THEN "data"
                                      ELSE IF k = "allnan" THEN "empty" ELSE "error"))
            /\ IF r.df /= None THEN Return(r.df, r.label)
               ELSE IF pc[2] < Len(BrapiCombos) THEN Goto("brapi", pc[2] + 1)
               ELSE Goto(NextBlock("brapi"), 1)
    /\ UNCHANGED <<fn, stooq_last, secrets, normVars, maskVars, appVars, adpVars, passVars, concVars, ingVars>>

\* src/app.py:345-346
StooqTargetStep ==
    /\ fn = "ibov" /\ pc[1] = "target"
    /\ \E k1, k2 \in StooqKinds :
         \E r \in {_stooq_ibov_daily(<<StooqAnswer(k1), StooqAnswer(k2)>>)} :
            /\ r.hosts = 1 => k2 = "exc"
            /\ Attempt(r.note /= Plain("ok"), r.hosts, <<>>,
                       Call(4, TRUE, Got(r.df, r.note = Plain("ok"))))
            /\ IF FloatRaises(r.df)
               THEN pc' = <<"raised", 0>> /\ UNCHANGED <<ret, stooq_last>>
               ELSE /\ stooq_last' = last_price(r.df)
                    /\ Goto(NextBlock("target"), 1)
    /\ UNCHANGED <<fn, secrets, normVars, maskVars, appVars, adpVars, passVars, concVars, ingVars>>

\* src/app.py:349-361, one iteration
ProxyYahooStep ==
    /\ fn = "ibov" /\ pc[1] = "proxy_yahoo"
    /\ \E k1, k2 \in YahooKinds :
         \E r \in {_yahoo_chart("BOVA11.SA", ProxyYahooCombos[pc[2]][1], ProxyYahooCombos[pc[2]][2],
                                <<YahooAnswer(k1), YahooAnswer(k2)>>, ProxySample)} :
            /\ r.hosts = 1 => k2 = "exc"
            /\ Attempt(r.note = Plain("EXC"), r.hosts,
                       <<YahooRecord(ProxyYahooCombos[pc[2]][3], r)>>,
                       Call(6, FALSE, Got(r.df, r.note = Plain("ok"))))
            /\ IF r.df /= EmptyDF
               THEN Return(_normalize_to_level(r.df, stooq_last),
                           ProxyYahooCombos[pc[2]][3] \o <<"(normalizado)">>)
               ELSE IF pc[2] < Len(ProxyYahooCombos) THEN Goto("proxy_yahoo", pc[2] + 1)
               ELSE Goto(NextBlock("proxy_yahoo"), 1)
    /\ UNCHANGED <<fn, stooq_last, secrets, normVars, maskVars, appVars, adpVars, passVars, concVars, ingVars>>

\* src/app.py:364-381, one iteration
ProxyStooqStep ==
    /\ fn = "ibov" /\ pc[1] = "proxy_stooq"
    /\ \E k \in StooqKinds :
         \E r \in {ProxyStooqHost(pc[2], StooqAnswer(k), stooq_last)} :
            /\ Attempt(k = "exc", 1, r.recs, Call(7, FALSE, Got(r.df, k = "allnull")))
            /\ IF r.df /= EmptyDF
               THEN Return(r.df, <<"proxy", "BOVA11", "Stooq", "(normalizado)">>)
               ELSE IF pc[2] < Len(StooqHosts) THEN Goto("proxy_stooq", pc[2] + 1)
               ELSE Goto(NextBlock("proxy_stooq"), 1)
    /\ UNCHANGED <<fn, stooq_last, secrets, normVars, maskVars, appVars, adpVars, passVars, concVars, ingVars>>

\* A plausible slip: the adapter's label passed on as it is
ProxyBrapiLabelPlain(label) == label

\* src/app.py:390: f"proxy {label} (normalizado)"
ProxyBrapiLabel(label) == <<"proxy">> \o label \o <<"(normalizado)">>

\* src/app.py:384-390, one iteration
ProxyBrapiStep ==
    /\ fn = "ibov" /\ pc[1] = "proxy_brapi"
    /\ \E k \in BrapiKinds :
         \E r \in {_brapi_daily_series("BOVA11", pc[2], BrapiAnswer(k, secrets.BRAPI_TOKEN),
                                       secrets.BRAPI_TOKEN, ProxySample)} :
            /\ Attempt(k = "exc", 1, <<BrapiRecord(<<"proxy">> \o r.label, r)>>,
                       Call(8, FALSE, IF r.df /= None THEN "data"
                                      ELSE IF k = "allnan" THEN "empty" ELSE "error"))
            /\ IF r.df /= None
               THEN Return(_normalize_to_level(r.df, stooq_last), ProxyBrapiLabel(r.label))
               ELSE IF pc[2] < Len(BrapiCombos) THEN Goto("proxy_brapi", pc[2] + 1)
               ELSE Goto(NextBlock("proxy_brapi"), 1)
    /\ UNCHANGED <<fn, stooq_last, secrets, normVars, maskVars, appVars, adpVars, passVars, concVars, ingVars>>

\* src/app.py:392-393
ReturnNothing ==
    /\ fn = "ibov" /\ pc[1] = "exhausted"
    /\ Return(EmptyDF, None)
    /\ UNCHANGED <<fn, logs, calls, http, stooq_last, secrets, odd, normVars, maskVars, appVars, adpVars, passVars, concVars, ingVars>>

\* src/app.py:184-185
AvCryptoStep ==
    /\ fn = "btc" /\ pc[1] = "av"
    /\ \E k1, k2 \in AvKinds :
         \E r \in {av_crypto_series(secrets.ALPHA_KEY, k1, k2)} :
            /\ r.gets = 0 => k1 = "exc"
            /\ r.gets < 2 => k2 = "exc"
            /\ Attempt(r.src \in {"no-key", "empty"}, r.gets, <<>>,
                       Call(1, FALSE, Got(r.df, r.src = "daily")))
            /\ IF r.df /= EmptyDF THEN Return(r.df, <<"Alpha", "Vantage", "(" \o r.src \o ")">>)
               ELSE Goto(NextBlock("av"), 1)
    /\ UNCHANGED <<fn, stooq_last, secrets, normVars, maskVars, appVars, adpVars, passVars, concVars, ingVars>>

\* src/app.py:186-195
BinanceStep ==
    /\ fn = "btc" /\ pc[1] = "binance"
    /\ \E k \in BinanceKinds :
         \E r \in {BinanceFallback(k)} :
            /\ Attempt(k = "exc", 1, <<>>, Call(2, FALSE, Got(r.df, k = "emptylist")))
            /\ IF r.raised THEN pc' = <<"raised", 0>> /\ UNCHANGED ret
               ELSE Return(r.df, r.src)
    /\ UNCHANGED <<fn, stooq_last, secrets, normVars, maskVars, appVars, adpVars, passVars, concVars, ingVars>>

\* The other specifications' variables, at rest.
MaskIdle == [pc |-> "idle", url |-> None, params |-> <<>>, net |-> "ok", safe_url |-> None]
RunIdle ==
    /\ fn = "none" /\ pc = <<"idle", 0>> /\ logs = <<>> /\ calls = <<>> /\ http = 0
    /\ stooq_last = None /\ ret = None /\ secrets = None /\ odd = 0
AppIdle ==
    /\ now = 0 /\ hour = 0 /\ cache = <<>> /\ fetched = <<>> /\ netCalls = 0 /\ last = None
NoOut == [df |-> EmptyDF, src |-> "", gets |-> 0]
AdpIdle == [pc |-> "idle", name |-> "none", hasKey |-> FALSE, k1 |-> "exc", k2 |-> "exc",
            i |-> 1, out |-> NoOut]
Order == <<"net", "news", "fx", "calendar", "heatmap", "ibov", "spy", "btc", "more">>
Quantity(name) == CHOOSE i \in 1..Len(Order) : Order[i] = name
NoKeys == [alpha |-> FALSE, news |-> FALSE, fmp |-> FALSE]
PassIdle == [state |-> "idle", q |-> 1, n |-> 0, wait |-> "none", got |-> FALSE,
             shown |-> [i \in 1..Len(Order) |-> "none"], nodata |-> {}, calls |-> 0,
             keys |-> NoKeys]
Sessions == {1, 2}
ConcIdle == [pc |-> [u \in Sessions |-> "idle"], via |-> [u \in Sessions |-> "none"],
             lock |-> 0, stored |-> FALSE, left |-> [u \in Sessions |-> 0]]
IngIdle == [pc |-> "idle", adapter |-> "none", payload |-> <<>>, out |-> EmptyDF]
OthersIdle == adp = AdpIdle /\ pass = PassIdle /\ conc = ConcIdle /\ ing = IngIdle

(***************************************************************************)
(* Spec: the cached functions as the render pass calls them, over time.    *)
(*                                                                         *)
(* now is the clock of st.cache_data (seconds); hour the wall-clock hour   *)
(* at which the session started.  cache maps a cached function's key to    *)
(* its entry [at, value]; a value is what the function returns, [df, src]. *)
(* fetched maps the key to the last run of the function body [at, raised,  *)
(* empty]; last is the last request and what it did: ran (the body of the  *)
(* function, or _ibov_series_impl, ran), gets (it made network calls; 1    *)
(* stands for the GETs of one run, of which there is at least one), nrecs  *)
(* (it returned attempt records), prev (fetched of the key as the request  *)
(* found it).                                                              *)
(*                                                                         *)
(* av_crypto_series, which btc_series calls, is cached with the same ttl   *)
(* and called from nowhere else, so its entry is always as old as that of  *)
(* btc_series; it is not kept apart.                                       *)
(***************************************************************************)
TTL      == 1500    \* @st.cache_data(ttl=1500)
TickStep == 500     \* the clock's grain
MaxTime  == 2000    \* the clock stops here
MaxCalls == 3       \* runs that reach the network, at most

Keys == {"ibov", "fx", "btc"}
Value(df, src) == [df |-> df, src |-> src]
NoValue == Value(EmptyDF, None)
NoEntry == [at |-> -1, value |-> NoValue]
NoRun   == [at |-> -1, raised |-> FALSE, empty |-> FALSE, nrecs |-> 0]

\* A run of a function body: what it returns unless it raises, and whether it
\* made network calls
Run(value, raised, gets) == [value |-> value, raised |-> raised, gets |-> gets]

\* src/app.py:284-393 as SpecRun has it end: a series and its label, nothing,
\* or the exception of src/app.py:346
IbovRuns ==
    {Run(Value(Sample, YahooCombos[1][3]), FALSE, 1),
     Run(NoValue, FALSE, 1),
     Run(NoValue, TRUE, 1)}

\* src/app.py:116-139
FxRuns(hasKey) ==
    IF ~hasKey THEN {Run(Value(EmptyDF, <<"no-key">>), FALSE, 0)}
    ELSE {Run(Value(Sample, <<"intraday">>), FALSE, 1),
          Run(Value(EmptyDF, <<"empty">>), FALSE, 1)}

\* src/app.py:183-195
BtcRuns ==
    {Run(Value(Sample, <<"Binance", "(USDT~USD)">>), FALSE, 1), Run(NoValue, FALSE, 1)}

\* The attempt records a run makes: a run of _ibov_series_impl that returns
\* has appended at least the record of its first Yahoo attempt (1 stands for
\* them); the other functions keep none
Records(key, o) == IF key = "ibov" /\ ~o.raised THEN 1 ELSE 0

\* The run a request made, as fetched keeps it
Ran(key, o) ==
    [at |-> now, raised |-> o.raised, empty |-> o.value.df = EmptyDF, nrecs |-> Records(key, o)]

\* st.cache_data(ttl): an entry is served while it is younger than ttl
Fresh(entry, t) == entry.at >= 0 /\ t - entry.at < TTL

Request(key, debug, force, cached, ran, o, nrecs) ==
    [key |-> key, at |-> now, debug |-> debug, force |-> force, cached |-> cached,
     ran |-> ran, raised |-> o.raised, gets |-> o.gets, value |-> o.value, nrecs |-> nrecs,
     prev |-> fetched[key]]
NoRequest ==
    [key |-> "none", at |-> 0, debug |-> FALSE, force |-> FALSE, cached |-> FALSE,
     ran |-> FALSE, raised |-> FALSE, gets |-> 0, value |-> NoValue, nrecs |-> 0,
     prev |-> NoRun]

\* A call of a function under @st.cache_data(ttl=1500): the entry if it is
\* fresh; else the body runs, and what it returns is stored (an exception is
\* not, and leaves the entry as it was)
CachedCall(key, debug, force, runs) ==
    IF Fresh(cache[key], now)
    THEN /\ last' = Request(key, debug, force, TRUE, FALSE, Run(cache[key].value, FALSE, 0), 0)
         /\ UNCHANGED <<cache, fetched, netCalls>>
    ELSE \E o \in runs :
            /\ netCalls + o.gets <= MaxCalls
            /\ netCalls' = netCalls + o.gets
            /\ cache' = IF o.raised THEN cache
                        ELSE [cache EXCEPT ![key] = [at |-> now, value |-> o.value]]
            /\ fetched' = [fetched EXCEPT ![key] = Ran(key, o)]
            /\ last' = Request(key, debug, force, TRUE, TRUE, o, 0)

Init ==
    /\ norm = NormIdle /\ mask = MaskIdle
    /\ fn = "none" /\ pc = <<"idle", 0>> /\ logs = <<>> /\ calls = <<>> /\ http = 0
    /\ stooq_last = None /\ ret = None /\ odd = 0
    /\ secrets \in [BRAPI_TOKEN : {FALSE}, ALPHA_KEY : BOOLEAN]
    /\ now = 0 /\ hour \in {12, 21}
    /\ cache = [k \in Keys |-> NoEntry] /\ fetched = [k \in Keys \cup {"direct"} |-> NoRun]
    /\ netCalls = 0 /\ last = NoRequest
    /\ OthersIdle

\* src/app.py:541
RequestFx ==
    /\ CachedCall("fx", FALSE, FALSE, FxRuns(secrets.ALPHA_KEY))
    /\ UNCHANGED <<now, hour, normVars, maskVars, runVars, adpVars, passVars, concVars, ingVars>>

\* A plausible slip: only the debug flag tested
RunsUncachedOnDebug(debug, force) == debug

\* src/app.py:401
RunsUncached(debug, force) == debug \/ force

\* A plausible slip: what a forced run returns put in the place of the entry
StoredByDirectRun(c, value) == [c EXCEPT !["ibov"] = [at |-> now, value |-> value]]

\* src/app.py:402: _ibov_series_impl is called itself, not through
\* ibov_series_cached, and the entry of ibov_series_cached stays as it is
LeftByDirectRun(c, value) == c

\* src/app.py:576 and 400-405: DEBUG_IBOV the checkbox, FORCE_IBOV the button.
\* fetched["direct"] keeps the last run made outside the cache.
RequestIbov ==
    /\ \E debug, force \in BOOLEAN :
         IF RunsUncached(debug, force)
         THEN \E o \in IbovRuns :
                 /\ netCalls + o.gets <= MaxCalls
                 /\ netCalls' = netCalls + o.gets
                 /\ last' = Request("ibov", debug, force, FALSE, TRUE, o, Records("ibov", o))
                 /\ cache' = LeftByDirectRun(cache, o.value)
                 /\ fetched' = [fetched EXCEPT !["direct"] = Ran("ibov", o)]
         ELSE CachedCall("ibov", debug, force, IbovRuns)
    /\ UNCHANGED <<now, hour, normVars, maskVars, runVars, adpVars, passVars, concVars, ingVars>>

\* src/app.py:599
RequestBtc ==
    /\ CachedCall("btc", FALSE, FALSE, BtcRuns)
    /\ UNCHANGED <<now, hour, normVars, maskVars, runVars, adpVars, passVars, concVars, ingVars>>

\* Time passes between requests
Tick ==
    /\ now + TickStep <= MaxTime
    /\ now' = now + TickStep
    /\ UNCHANGED <<hour, cache, fetched, netCalls, last, normVars, maskVars, runVars, adpVars, passVars, concVars, ingVars>>

Next == RequestFx \/ RequestIbov \/ RequestBtc \/ Tick
Spec == Init /\ [][Next]_vars

InitNormSpec == InitNorm /\ mask = MaskIdle /\ RunIdle /\ AppIdle /\ OthersIdle
NextNorm == NormalizeCall
SpecNorm == InitNormSpec /\ [][NextNorm]_vars

InitMaskSpec == InitMask /\ norm = NormIdle /\ RunIdle /\ AppIdle /\ OthersIdle

InitRunSpec == InitRun /\ norm = NormIdle /\ mask = MaskIdle /\ AppIdle /\ OthersIdle
NextRun ==
    \/ YahooStep \/ YfIntradayStep \/ YfDailyStep \/ StooqStep \/ BrapiStep
    \/ StooqTargetStep \/ ProxyYahooStep \/ ProxyStooqStep \/ ProxyBrapiStep
    \/ ReturnNothing \/ AvCryptoStep \/ BinanceStep
SpecRun == InitRunSpec /\ [][NextRun]_vars
NextMask == MaskCall \/ SafeGetCall
SpecMask == InitMaskSpec /\ [][NextMask]_vars

(***************************************************************************)
(* SpecAdapter: one call of an adapter that reads a credential, with the   *)
(* credential present or absent, against each kind of answer.              *)
(***************************************************************************)
Adapters == {"av_fx_intraday", "av_equity_intraday", "av_crypto_series", "fmp_quotes",
             "fmp_profile", "get_newsapi_news", "_brapi_daily_series"}

\* The kinds of answer an adapter's first and second GET may get
AdapterKinds(name) ==
    CASE name \in {"av_fx_intraday", "av_crypto_series"} -> AvKinds \X AvKinds
      [] name = "av_equity_intraday" -> AvKinds \X {"exc"}
      [] name \in {"fmp_quotes", "fmp_profile"} -> FmpKinds \X {"exc"}
      [] name = "get_newsapi_news" -> NewsKinds \X {"exc"}
      [] OTHER -> BrapiKinds \X {"exc"}

InitAdapter ==
    \E name \in Adapters, hasKey \in BOOLEAN, i \in 1..Len(BrapiCombos) :
      \E ks \in AdapterKinds(name) :
        /\ (i > 1 => name = "_brapi_daily_series")
        /\ adp = [pc |-> "call", name |-> name, hasKey |-> hasKey, k1 |-> ks[1], k2 |-> ks[2],
                  i |-> i, out |-> NoOut]

Returned(out) ==
    /\ adp.pc = "call"
    /\ adp' = [adp EXCEPT !.pc = "done", !.out = out]

AvFxCall ==
    /\ adp.name = "av_fx_intraday"
    /\ Returned(av_fx_intraday(adp.hasKey, adp.k1, adp.k2))
    /\ UNCHANGED <<normVars, maskVars, runVars, appVars, passVars, concVars, ingVars>>

AvEquityCall ==
    /\ adp.name = "av_equity_intraday"
    /\ Returned(av_equity_intraday(adp.hasKey, adp.k1))
    /\ UNCHANGED <<normVars, maskVars, runVars, appVars, passVars, concVars, ingVars>>

AvCryptoCall ==
    /\ adp.name = "av_crypto_series"
    /\ Returned(av_crypto_series(adp.hasKey, adp.k1, adp.k2))
    /\ UNCHANGED <<normVars, maskVars, runVars, appVars, passVars, concVars, ingVars>>

FmpQuotesCall ==
    /\ adp.name = "fmp_quotes"
    /\ Returned(fmp_quotes(adp.hasKey, adp.k1))
    /\ UNCHANGED <<normVars, maskVars, runVars, appVars, passVars, concVars, ingVars>>

FmpProfileCall ==
    /\ adp.name = "fmp_profile"
    /\ Returned(fmp_profile(adp.hasKey, adp.k1))
    /\ UNCHANGED <<normVars, maskVars, runVars, appVars, passVars, concVars, ingVars>>

NewsApiCall ==
    /\ adp.name = "get_newsapi_news"
    /\ Returned(get_newsapi_news(adp.hasKey, adp.k1))
    /\ UNCHANGED <<normVars, maskVars, runVars, appVars, passVars, concVars, ingVars>>

BrapiCall ==
    /\ adp.name = "_brapi_daily_series"
    /\ Returned(BrapiIteration(adp.hasKey, adp.i, adp.k1))
    /\ UNCHANGED <<normVars, maskVars, runVars, appVars, passVars, concVars, ingVars>>

InitAdapterSpec == InitAdapter /\ norm = NormIdle /\ mask = MaskIdle /\ RunIdle /\ AppIdle
                   /\ pass = PassIdle /\ conc = ConcIdle /\ ing = IngIdle
NextAdapter ==
    \/ AvFxCall \/ AvEquityCall \/ AvCryptoCall \/ FmpQuotesCall \/ FmpProfileCall
    \/ NewsApiCall \/ BrapiCall
SpecAdapter == InitAdapterSpec /\ [][NextAdapter]_vars

(***************************************************************************)
(* SpecConc: two sessions (script runs on two threads of the one server    *)
(* process) calling ibov_series at the same time.                          *)
(*                                                                         *)
(* st.cache_data computes a missing value under the value's compute lock:  *)
(* a caller that misses takes the lock, reads the cache again, and only on *)
(* a second miss runs the function, stores what it returns and releases    *)
(* the lock.  conc.pc is each session's position, conc.via how its fetch   *)
(* is run ("cache": inside ibov_series_cached, "direct": _ibov_series_impl *)
(* called by ibov_series itself), conc.lock the session that holds the     *)
(* compute lock (0: none), conc.stored whether the cache holds a fresh     *)
(* entry, conc.left the requests each session may still make.              *)
(***************************************************************************)
MaxRequests == 2    \* requests per session

InitConc == conc = [ConcIdle EXCEPT !.left = [u \in Sessions |-> MaxRequests]]

Fetching(u) == conc.pc[u] = "fetching"

\* src/app.py:576 and 400-404: a render pass of session u reaches ibov_series
StartRequest(u) ==
    /\ conc.pc[u] = "idle" /\ conc.left[u] > 0
    /\ \E debug, force \in BOOLEAN :
         conc' = [conc EXCEPT
                    !.left[u] = @ - 1,
                    !.pc[u]  = IF RunsUncached(debug, force) THEN "fetching" ELSE "lookup",
                    !.via[u] = IF RunsUncached(debug, force) THEN "direct" ELSE "cache"]
    /\ UNCHANGED <<normVars, maskVars, runVars, appVars, adpVars, passVars, ingVars>>

\* src/app.py:395, st.cache_data: the first read of the cache
Lookup(u) ==
    /\ conc.pc[u] = "lookup"
    /\ conc' = [conc EXCEPT !.pc[u] = IF conc.stored THEN "idle" ELSE "wait",
                            !.via[u] = IF conc.stored THEN "none" ELSE @]
    /\ UNCHANGED <<normVars, maskVars, runVars, appVars, adpVars, passVars, ingVars>>

\* src/app.py:395, st.cache_data: the compute lock is taken and the cache read again
Acquire(u) ==
    /\ conc.pc[u] = "wait" /\ conc.lock = 0
    /\ conc' = IF conc.stored
               THEN [conc EXCEPT !.pc[u] = "idle", !.via[u] = "none"]
               ELSE [conc EXCEPT !.pc[u] = "fetching", !.lock = u]
    /\ UNCHANGED <<normVars, maskVars, runVars, appVars, adpVars, passVars, ingVars>>

\* src/app.py:396-398 and 402: the run of _ibov_series_impl ends; under the
\* cache what it returned is stored (nothing if it raised) and the lock released
EndFetch(u) ==
    /\ Fetching(u)
    /\ \E raised \in BOOLEAN :
         conc' = [conc EXCEPT
                    !.pc[u] = "idle", !.via[u] = "none",
                    !.lock = IF conc.via[u] = "cache" THEN 0 ELSE @,
                    !.stored = IF conc.via[u] = "cache" /\ ~raised THEN TRUE ELSE @]
    /\ UNCHANGED <<normVars, maskVars, runVars, appVars, adpVars, passVars, ingVars>>

\* src/app.py:395: the entry reaches its ttl
Expire ==
    /\ conc.stored
    /\ conc' = [conc EXCEPT !.stored = FALSE]
    /\ UNCHANGED <<normVars, maskVars, runVars, appVars, adpVars, passVars, ingVars>>

InitConcSpec == InitConc /\ norm = NormIdle /\ mask = MaskIdle /\ RunIdle /\ AppIdle
                /\ adp = AdpIdle /\ pass = PassIdle /\ ing = IngIdle
NextConc ==
    \/ \E u \in Sessions : StartRequest(u) \/ Lookup(u) \/ Acquire(u) \/ EndFetch(u)
    \/ Expire
SpecConc == InitConcSpec /\ [][NextConc]_vars

(***************************************************************************)
(* SpecPass: one render pass, the run of the script's body from has_net    *)
(* (src/app.py:54) to the last headlines (line 618), made while no cached  *)
(* function holds a fresh entry.  The pass goes through the parts of the   *)
(* page in Order; each part makes its network calls one after the other    *)
(* and is then rendered.  A call is made through requests (REQ.get with    *)
(* timeout=), through yfinance (yf.download, to which the code passes no   *)
(* timeout: the library's own applies) or through feedparser               *)
(* (feedparser.parse, which takes none and sets none).                     *)
(*                                                                         *)
(* pass.q is the part under way, pass.n the calls it has made, pass.wait   *)
(* the library through which a call is in flight ("none": no call),        *)
(* pass.got whether a call of this part that only collects gave data,      *)
(* pass.shown what each part rendered ("data", "warning": a message that   *)
(* says there is no data, "blank": nothing), pass.nodata the parts whose   *)
(* calls gave no data, pass.calls the calls made.                          *)
(*                                                                         *)
(* A call's role says what its data does: "source" ends the part's fetch   *)
(* with that data; "collect" keeps the data and goes on; "level" is the    *)
(* second call of _stooq_ibov_daily, whose data is read by last_price      *)
(* (src/app.py:345-346) while the fetch goes on; "fill" is a call whose    *)
(* answer never decides what is rendered.  raises marks the calls of which *)
(* a payload that the adapter accepts can raise outside every handler.     *)
(***************************************************************************)
Hosts == 2          \* query1/query2 (src/app.py:200), stooq.com/.pl (227, 364)
NFeeds == 5         \* RSS_FEEDS, src/app.py:450-456
NSymbols == 19      \* B3_SECTORS, src/app.py:407-415

Step(via, role, raises) == [via |-> via, role |-> role, raises |-> raises]
Rep(n, e) == [i \in 1..n |-> e]

\* What bounds the wait of a call made through a library: the timeout= argument
\* of REQ.get (src/app.py:49, 98, 207 and the others), the default of
\* yf.download's own timeout parameter, nothing for feedparser.parse
TimeoutOf(via) ==
    CASE via = "requests"   -> "argument"
      [] via = "yfinance"   -> "default"
      [] via = "feedparser" -> "none"
ExplicitTimeout(via) == TimeoutOf(via) = "argument"

IbovPlan ==
    Rep(Len(YahooCombos) * Hosts, Step("requests", "source", FALSE))            \* 297-302
    \o Rep(Len(YfIntervals) + Len(YfPeriods), Step("yfinance", "source", FALSE)) \* 305-328
    \o Rep(Hosts, Step("requests", "source", TRUE))                             \* 331, 579
    \o Rep(Len(BrapiCombos), Step("requests", "source", FALSE))                      \* 338
    \o Rep(Hosts, Step("requests", "level", TRUE))                              \* 345-346
    \o Rep(Len(ProxyYahooCombos) * Hosts, Step("requests", "source", FALSE))    \* 349-361
    \o Rep(Hosts, Step("requests", "source", FALSE))                            \* 364-382
    \o Rep(Len(BrapiCombos), Step("requests", "source", FALSE))                      \* 385-390

\* The calls a part of the page makes, in order, when none of them gives data
Plan(name, keys) ==
    CASE name = "net"      -> <<Step("requests", "fill", FALSE)>>                          \* 49
      [] name = "news"     -> (IF keys.news THEN <<Step("requests", "source", FALSE)>> ELSE <<>>)
                              \o Rep(NFeeds, Step("feedparser", "collect", FALSE))         \* 520
      [] name = "fx"       -> IF keys.alpha THEN Rep(2, Step("requests", "source", FALSE))
                              ELSE <<>>                                                    \* 117-137
      [] name = "calendar" -> <<Step("requests", "source", FALSE)>>                        \* 487
      [] name = "heatmap"  -> IF keys.fmp
                              THEN <<Step("requests", "source", TRUE)>>
                                   \o Rep(NSymbols, Step("requests", "fill", TRUE))
                              ELSE <<>>                                                    \* 557-559, 437-442
      [] name = "ibov"     -> IbovPlan
      [] name = "spy"      -> IF keys.alpha THEN <<Step("requests", "source", FALSE)>>
                              ELSE <<>>                                                    \* 143-145
      [] name = "btc"      -> (IF keys.alpha THEN Rep(2, Step("requests", "source", FALSE)) ELSE <<>>)
                              \o <<Step("requests", "source", FALSE)>>                     \* 158-188
      [] name = "more"     -> (IF keys.news THEN <<Step("requests", "collect", FALSE)>> ELSE <<>>)
                              \o Rep(NFeeds, Step("feedparser", "collect", FALSE))         \* 611

\* What a part renders when its fetch gave no data: the heatmap, whose frame
\* always has a row per symbol (src/app.py:439-447), is drawn whenever FMP_KEY
\* is set; the news render nothing (522, 531, 613); the others say so.
ShownWithoutData(name, keys) ==
    CASE name = "heatmap" -> IF keys.fmp THEN "data" ELSE "warning"
      [] name \in {"net", "news", "more"} -> "blank"
      [] OTHER -> "warning"

InitPass ==
    \E keys \in [alpha : BOOLEAN, news : BOOLEAN, fmp : BOOLEAN] :
        pass = [PassIdle EXCEPT !.state = "running", !.keys = keys]

CurrentPlan == Plan(Order[pass.q], pass.keys)

\* The part under way has been fetched: it is rendered and the next one begins
Rendered(p, hasData) ==
    [p EXCEPT !.shown[p.q] = IF hasData THEN "data" ELSE ShownWithoutData(Order[p.q], p.keys),
              !.nodata = IF hasData THEN @ ELSE @ \cup {Order[p.q]},
              !.state = IF p.q = Len(Order) THEN "ended" ELSE @,
              !.q = IF p.q = Len(Order) THEN @ ELSE @ + 1,
              !.n = 0, !.wait = "none", !.got = FALSE]

\* The call in flight is over without ending the fetch: the next call, or the
\* end of the calls
GoOn(p, plan) ==
    IF p.n = Len(plan) THEN Rendered(p, p.got) ELSE [p EXCEPT !.wait = "none"]

\* The second call of _stooq_ibov_daily returned at a host: the other host is not asked
PastLevel(p, plan) ==
    [p EXCEPT !.n = CHOOSE i \in p.n..Len(plan) :
                        /\ plan[i].role = "level"
                        /\ \A j \in (i + 1)..Len(plan) : plan[j].role /= "level"]

\* What a call's answer does: kind is "data", "fail" (an error, an exception, an
\* empty or refused payload, a timeout) or "bad" (a payload the adapter accepts
\* and other code cannot read)
Answered(p, plan, kind) ==
    LET step == plan[p.n] IN
    CASE kind = "bad" /\ step.raises         -> [p EXCEPT !.state = "aborted", !.wait = "none"]
      [] kind = "data" /\ step.role = "source"  -> Rendered(p, TRUE)
      [] kind = "data" /\ step.role = "collect" -> GoOn([p EXCEPT !.got = TRUE], plan)
      [] kind = "data" /\ step.role = "level"   -> GoOn(PastLevel(p, plan), plan)
      [] OTHER                                  -> GoOn(p, plan)

\* A call is made
BeginCall ==
    /\ pass.state = "running" /\ pass.wait = "none" /\ pass.n < Len(CurrentPlan)
    /\ pass' = [pass EXCEPT !.n = @ + 1, !.calls = @ + 1, !.wait = CurrentPlan[pass.n + 1].via]
    /\ UNCHANGED <<normVars, maskVars, runVars, appVars, adpVars, concVars, ingVars>>

\* The provider answers the call in flight
Respond ==
    /\ pass.state = "running" /\ pass.wait /= "none"
    /\ \E kind \in {"data", "fail", "bad"} : pass' = Answered(pass, CurrentPlan, kind)
    /\ UNCHANGED <<normVars, maskVars, runVars, appVars, adpVars, concVars, ingVars>>

\* The provider does not answer and the call's timeout passes: the library raises
TimeOut ==
    /\ pass.state = "running" /\ pass.wait /= "none"
    /\ TimeoutOf(pass.wait) /= "none"
    /\ pass' = Answered(pass, CurrentPlan, "fail")
    /\ UNCHANGED <<normVars, maskVars, runVars, appVars, adpVars, concVars, ingVars>>

\* A part that makes no call (its key is not set) is rendered
RenderWithoutCall ==
    /\ pass.state = "running" /\ pass.wait = "none" /\ CurrentPlan = <<>>
    /\ pass' = Rendered(pass, FALSE)
    /\ UNCHANGED <<normVars, maskVars, runVars, appVars, adpVars, concVars, ingVars>>

InitPassSpec == InitPass /\ norm = NormIdle /\ mask = MaskIdle /\ RunIdle /\ AppIdle
                /\ adp = AdpIdle /\ conc = ConcIdle /\ ing = IngIdle
NextPass == BeginCall \/ Respond \/ TimeOut \/ RenderWithoutCall
SpecPass == InitPassSpec /\ [][NextPass]_vars

(***************************************************************************)
(* SpecIngest: a provider's payload made into a series.                    *)
(*                                                                         *)
(* A payload is the rows of the provider's answer in the order it gives    *)
(* them: [dt, close], dt the row's timestamp (the key of the row in Alpha   *)
(* Vantage's object), close a number, None (a JSON null, an empty CSV      *)
(* cell), NanText (the text NaN where a number is expected) or NotNumber   *)
(* (text that is not a number).  Each adapter makes the rows into a frame  *)
(* with its own sequence of pandas calls; in a frame None is NaN.          *)
(***************************************************************************)
MaxPayload == 3     \* rows of a payload
MaxDt == 2          \* timestamps are drawn from 1..MaxDt

NanText == <<1, 0>>
PayloadRows == [dt : 1..MaxDt, close : {Float(1), None, NanText, NotNumber}]
IngestAdapters == {"_yahoo_chart", "_stooq_ibov_daily", "_brapi_daily_series",
                   "alphavantage", "binance"}

\* json.loads, read_csv, float: the text NaN is read as the float NaN
nan(rows) ==
    [i \in 1..Len(rows) |-> IF rows[i].close = NanText THEN [rows[i] EXCEPT !.close = None]
                            ELSE rows[i]]

\* DataFrame.dropna: the rows with a missing value go, text stays
dropna(df) == SelectSeq(df, LAMBDA row : row.close /= None)

\* pd.to_numeric(errors="coerce"): what is not a number becomes missing
to_numeric(df) ==
    [i \in 1..Len(df) |-> IF df[i].close = NotNumber THEN [df[i] EXCEPT !.close = None]
                          ELSE df[i]]

\* DataFrame.sort_index: the rows in the order of their timestamps, rows of
\* one timestamp all kept, in the order they had
RECURSIVE Inserted(_, _)
Inserted(df, row) ==
    IF df = <<>> \/ df[Len(df)].dt <= row.dt THEN Append(df, row)
    ELSE Append(Inserted(SubSeq(df, 1, Len(df) - 1), row), df[Len(df)])

RECURSIVE sort_index(_)
sort_index(df) ==
    IF df = <<>> THEN <<>>
    ELSE Inserted(sort_index(SubSeq(df, 1, Len(df) - 1)), df[Len(df)])

\* json: of the members of an object that have one name the last is kept
JsonObject(rows) ==
    LET kept == {i \in 1..Len(rows) : \A j \in (i + 1)..Len(rows) : rows[j].dt /= rows[i].dt}
        RECURSIVE Pick(_)
        Pick(i) == IF i > Len(rows) THEN <<>>
                   ELSE (IF i \in kept THEN <<rows[i]>> ELSE <<>>) \o Pick(i + 1)
    IN  Pick(1)

\* float(k[4]) for every kline: raises on None and on text that is no float
FloatsRaise(rows) == \E i \in 1..Len(rows) : rows[i].close \in {None, NotNumber}

\* src/app.py:218-219
YahooFrame(rows) == sort_index(dropna(nan(rows)))

\* src/app.py:234-239
StooqFrame(rows) == sort_index(dropna(nan(rows)))

\* src/app.py:258-262
BrapiFrame(rows) == dropna(to_numeric(sort_index(nan(rows))))

\* src/app.py:122-126, 133-137, 149-152, 163-167, 174-178
AvFrame(rows) == dropna(to_numeric(sort_index(nan(JsonObject(rows)))))

\* src/app.py:188-195
BinanceFrame(rows) == IF FloatsRaise(rows) THEN EmptyDF ELSE sort_index(nan(rows))

InitIngest ==
    \E adapter \in IngestAdapters, rows \in SeqsUpTo(PayloadRows, MaxPayload) :
        ing = [pc |-> "call", adapter |-> adapter, payload |-> rows, out |-> EmptyDF]

Ingested(out) ==
    /\ ing.pc = "call"
    /\ ing' = [ing EXCEPT !.pc = "done", !.out = out]

YahooIngest ==
    /\ ing.adapter = "_yahoo_chart"
    /\ Ingested(YahooFrame(ing.payload))
    /\ UNCHANGED <<normVars, maskVars, runVars, appVars, adpVars, passVars, concVars>>

StooqIngest ==
    /\ ing.adapter = "_stooq_ibov_daily"
    /\ Ingested(StooqFrame(ing.payload))
    /\ UNCHANGED <<normVars, maskVars, runVars, appVars, adpVars, passVars, concVars>>

BrapiIngest ==
    /\ ing.adapter = "_brapi_daily_series"
    /\ Ingested(BrapiFrame(ing.payload))
    /\ UNCHANGED <<normVars, maskVars, runVars, appVars, adpVars, passVars, concVars>>

AvIngest ==
    /\ ing.adapter = "alphavantage"
    /\ Ingested(AvFrame(ing.payload))
    /\ UNCHANGED <<normVars, maskVars, runVars, appVars, adpVars, passVars, concVars>>

BinanceIngest ==
    /\ ing.adapter = "binance"
    /\ Ingested(BinanceFrame(ing.payload))
    /\ UNCHANGED <<normVars, maskVars, runVars, appVars, adpVars, passVars, concVars>>

InitIngestSpec == InitIngest /\ norm = NormIdle /\ mask = MaskIdle /\ RunIdle /\ AppIdle
                  /\ adp = AdpIdle /\ pass = PassIdle /\ conc = ConcIdle
NextIngest == YahooIngest \/ StooqIngest \/ BrapiIngest \/ AvIngest \/ BinanceIngest
SpecIngest == InitIngestSpec /\ [][NextIngest]_vars

\* The relative error of two roundings is at most 2u + u^2, u = 2^-Precision.
WithinRounding(x, exactNum, exactDen) ==
    LET diff == x[1] * exactDen - exactNum * x[2]
        abs  == IF diff < 0 THEN -diff ELSE diff
    IN  abs * (2 ^ (2 * Precision)) <= (2 ^ (Precision + 1) + 1) * exactNum * x[2]

NormScales ==
    /\ norm.pc = "done"
    /\ norm.proxy_df /= EmptyDF
    /\ norm.target_last /= None /\ norm.target_last /= <<0, 1>>
    /\ last_price(norm.proxy_df) /= <<0, 1>>

\* C7 (as stated): with p, t non-zero the result has the same length and
\* timestamps and its last value equals t.
C7_LastEqualsTarget ==
    NormScales =>
        /\ Len(norm.out) = Len(norm.proxy_df)
        /\ \A i \in 1..Len(norm.out) : norm.out[i].dt = norm.proxy_df[i].dt
        /\ last_price(norm.out) = norm.target_last

\* C7 (amended): with p, t non-zero the result has the same length and
\* timestamps, every value equals original_value * (t / p) up to the rounding
\* of the division and of the multiplication, and so the last value equals t
\* up to that rounding.
C7_ScaledWithinRounding ==
    NormScales =>
        LET p == last_price(norm.proxy_df)
            t == norm.target_last
        IN  /\ Len(norm.out) = Len(norm.proxy_df)
            /\ \A i \in 1..Len(norm.out) :
                  /\ norm.out[i].dt = norm.proxy_df[i].dt
                  /\ WithinRounding(norm.out[i].close,
                                    norm.proxy_df[i].close[1] * t[1] * p[2],
                                    norm.proxy_df[i].close[2] * t[2] * p[1])
            /\ WithinRounding(last_price(norm.out), t[1], t[2])

C7_Witness ==
    /\ NormScales
    /\ Len(norm.proxy_df) = 3
    /\ last_price(norm.out) /= norm.target_last
    /\ norm.proxy_df[1].close /= norm.proxy_df[3].close
    /\ norm.out /= norm.proxy_df

\* C8: the proxy series is returned with every value unchanged when the target
\* is None, when the proxy's last value is zero, or when the proxy is empty.
C8_UnscaledWhenNoLevel ==
    (/\ norm.pc = "done"
     /\ \/ norm.target_last = None
        \/ norm.proxy_df = EmptyDF
        \/ last_price(norm.proxy_df) = <<0, 1>>)
    => norm.out = norm.proxy_df

C8_Witness ==
    /\ norm.pc = "done"
    /\ norm.target_last = None
    /\ Len(norm.proxy_df) = 2
    /\ last_price(norm.proxy_df) = Float(5)
    /\ norm.out = norm.proxy_df

C8_WitnessZero ==
    /\ norm.pc = "done"
    /\ norm.target_last = Float(3)
    /\ Len(norm.proxy_df) = 2
    /\ norm.proxy_df[1].close = Float(5)
    /\ last_price(norm.proxy_df) = <<0, 1>>
    /\ norm.out = norm.proxy_df

\* C9: whatever the letter case of a credential-like parameter name, and on the
\* success path as on the exception path of _safe_get, the recorded URL holds
\* none of the credential values the request URL carried.
C9_RecordedUrlHidesCredentials ==
    mask.pc = "done" =>
        \A i \in 1..Len(mask.params) :
            (lower(mask.params[i][1]) \in CredentialNames /\ mask.params[i][2] /= "")
            => \A j \in 1..Len(mask.safe_url.query) :
                   mask.safe_url.query[j][2] /= mask.params[i][2]

C9_Witness ==
    /\ mask.pc = "done"
    /\ mask.net = "exc"
    /\ mask.url = "https://brapi.dev/api/quote/IBOV"
    /\ mask.params = <<<<"range", "1mo">>, <<"TOKEN", "SECRET-A">>>>
    /\ mask.safe_url.query = <<<<"range", "1mo">>, <<"TOKEN", MaskText>>>>

(***************************************************************************)
(* One run of the resolvers (SpecRun).                                     *)
(***************************************************************************)
\* The provider step an attempt record belongs to, from its provider and label
StepOf(rec) ==
    CASE rec.provider = "YahooChart" -> IF rec.step[1] = "proxy" THEN 6 ELSE 1
      [] rec.provider = "YF"         -> IF rec.step[2] = "intraday" THEN 2 ELSE 3
      [] rec.provider = "Stooq"      -> IF rec.step = ProxyStooqLabel THEN 7 ELSE 4
      [] OTHER                       -> IF rec.step[1] = "proxy" THEN 8 ELSE 5

\* The attempts a provider step makes before it is given up
Attempts(s) ==
    IF fn = "btc" THEN 1
    ELSE CASE s = 1 -> Len(YahooCombos)
           [] s = 2 -> Len(YfIntervals)
           [] s = 3 -> Len(YfPeriods)
           [] s = 4 -> 1
           [] s = 5 -> Len(BrapiCombos)
           [] s = 6 -> Len(ProxyYahooCombos)
           [] s = 7 -> Len(StooqHosts)
           [] s = 8 -> Len(BrapiCombos)
AttemptsOf(s) == Cardinality({i \in 1..Len(calls) : ~calls[i].aux /\ calls[i].step = s})

\* C1: the provider steps are attempted in the configured order; a step is
\* attempted only after every earlier step has made all its attempts and each
\* returned an error or an empty series; nothing is attempted after the first
\* attempt of a step that yields a non-empty series.
C1_StepsInOrder ==
    /\ \A i, j \in 1..Len(calls) :
          (i < j /\ ~calls[i].aux)
          => /\ calls[i].got /= "data"
             /\ ~calls[j].aux => calls[i].step <= calls[j].step
    /\ \A j \in 1..Len(calls) :
          ~calls[j].aux => \A s \in 1..(calls[j].step - 1) : AttemptsOf(s) = Attempts(s)
    /\ \A s \in 1..8 : AttemptsOf(s) <= Attempts(s)

\* The sixth step of the order succeeds after the five before it failed
C1_Witness ==
    /\ fn = "ibov" /\ pc = Done
    /\ calls[Len(calls)] = Call(6, FALSE, "data")
    /\ AttemptsOf(6) = 2
    /\ \E i \in 1..Len(calls) : calls[i].got = "empty"
    /\ \E i \in 1..Len(calls) : calls[i].aux

\* BTC: Binance yields after Alpha Vantage returned nothing
C1_WitnessBtc ==
    /\ fn = "btc" /\ pc = Done
    /\ calls = <<Call(1, FALSE, "error"), Call(2, FALSE, "data")>>

\* Every step of the configured order failed or returned empty
AllFailed == \A i \in 1..Len(calls) : calls[i].aux \/ calls[i].got /= "data"

\* C2: when every provider step fails or returns empty, the run does not
\* raise, and it returns an empty series with a null source label.
C2_EmptyAndNeverRaises ==
    AllFailed =>
        /\ pc[1] /= "raised"
        /\ pc = Done => ret = [df |-> EmptyDF, src |-> None]

\* C3: the diagnostics of a run of _ibov_series_impl hold at least one record
\* for every provider step attempted, in invocation order.
C3_EveryStepRecorded ==
    fn = "ibov" =>
        /\ \A i \in 1..Len(calls) : \E j \in 1..Len(logs) : StepOf(logs[j]) = calls[i].step
        /\ \A i, j \in 1..Len(logs) : i < j => StepOf(logs[i]) <= StepOf(logs[j])
        /\ Len(logs) >= Cardinality({calls[i].step : i \in 1..Len(calls)})

\* C10: no attempt record holds the brapi token, in its URL or in its note.
C10_NoCredentialInRecords ==
    \A j \in 1..Len(logs) :
        /\ logs[j].note.tokenAt = -1
        /\ \A q \in 1..Len(logs[j].url.query) : logs[j].url.query[q][2] /= TokenValue

\* C16: in a run of _ibov_series_impl the number of attempt records equals
\* the number of physical provider calls made.
C16_OneRecordPerCall == fn = "ibov" => Len(logs) = http

\* C19: a record with ok = TRUE is the last record of a run that returned a
\* non-empty series with a source label, and such a run ends with one.
C19_OkOnlyLastAndOnSuccess ==
    fn = "ibov" =>
        /\ \A i \in 1..Len(logs) :
              logs[i].ok => /\ i = Len(logs)
                            /\ pc = Done /\ ret.df /= EmptyDF /\ ret.src /= None
        /\ (pc = Done /\ ret.df /= EmptyDF) => (logs /= <<>> /\ logs[Len(logs)].ok)

\* Whether a label has a word
HasWord(label, word) == \E i \in 1..Len(label) : label[i] = word

\* C20: a series returned by a BOVA11 step has a label with the words "proxy"
\* and "(normalizado)"; a series returned by a ^BVSP / IBOV step has a label
\* with neither.
C20_ProxyLabelled ==
    (fn = "ibov" /\ pc = Done /\ ret.df /= EmptyDF) =>
        IF calls[Len(calls)].step >= 6
        THEN HasWord(ret.src, "proxy") /\ HasWord(ret.src, "(normalizado)")
        ELSE ~HasWord(ret.src, "proxy") /\ ~HasWord(ret.src, "(normalizado)")

\* The last step of the order returns the BOVA11 series of brapi
C20_Witness ==
    /\ fn = "ibov" /\ pc = Done
    /\ calls[Len(calls)] = Call(8, FALSE, "data")
    /\ ret.src = <<"proxy", "brapi", "3mo/1d", "(normalizado)">>
    /\ ret.df = ProxySample

\* A ^BVSP step returns
C20_WitnessPrimary ==
    /\ fn = "ibov" /\ pc = Done
    /\ calls[Len(calls)] = Call(5, FALSE, "data")
    /\ ret.src = <<"brapi", "1mo/1d">>

\* The two calls of _stooq_ibov_daily of a run: the primary step's and the
\* fetch of the normalisation target
StooqCalls(aux) == {i \in 1..Len(calls) : calls[i].step = 4 /\ calls[i].aux = aux}
ProxyBlocks == {"proxy_yahoo", "proxy_stooq", "proxy_brapi"}
ProxyReturned == fn = "ibov" /\ pc = Done /\ ret.df /= EmptyDF /\ HasWord(ret.src, "proxy")
\* The BOVA11 series as a provider gives it (from Stooq, possibly with a
\* Close that is not a number)
RawProxy == {ProxySample, Garbled(ProxySample)}

\* C21: the proxy steps are reached only after the primary Stooq step came
\* back empty, and the level is that of a second Stooq fetch; so a proxy
\* result is the raw BOVA11 series whenever the second fetch yields what the
\* first did (or any empty frame), and is scaled, to the level of the second
\* fetch, only when that fetch gave data after the first gave none.
C21_ScaledOnlyBySecondFetch ==
    /\ (fn = "ibov" /\ pc[1] \in ProxyBlocks \cup {"target"}) =>
          /\ \E i \in StooqCalls(FALSE) : calls[i].got /= "data"
          /\ \A i \in StooqCalls(FALSE) : calls[i].got /= "data"
    /\ (fn = "ibov" /\ pc[1] \in ProxyBlocks) => Cardinality(StooqCalls(TRUE)) = 1
    /\ ProxyReturned =>
          \E i \in StooqCalls(FALSE) : \E j \in StooqCalls(TRUE) :
             /\ i < j /\ calls[i].got /= "data"
             /\ calls[j].got = calls[i].got => ret.df \in RawProxy
             /\ calls[j].got /= "data" => (stooq_last = None /\ ret.df \in RawProxy)
             /\ ret.df \notin RawProxy => calls[j].got = "data"
             /\ calls[j].got = "data" =>
                   /\ stooq_last = last_price(Sample)
                   /\ ret.df = _normalize_to_level(ProxySample, last_price(Sample))

\* A proxy series scaled to the level of a second fetch that succeeded
C21_Witness ==
    /\ ProxyReturned /\ ret.df \notin RawProxy
    /\ \E i \in StooqCalls(FALSE) : calls[i].got = "error"
    /\ \E j \in StooqCalls(TRUE) : calls[j].got = "data"

\* A proxy series returned as it came, labelled as normalised, both fetches
\* having failed alike
C21_WitnessUnscaled ==
    /\ ProxyReturned /\ ret.df = ProxySample /\ HasWord(ret.src, "(normalizado)")
    /\ \E i \in StooqCalls(FALSE) : \E j \in StooqCalls(TRUE) :
          calls[i].got = "error" /\ calls[j].got = "error"

\* The records of the calls of _yahoo_chart, and those whose URL is query2's
YahooRecords == {i \in 1..Len(logs) : logs[i].provider = "YahooChart"}
OfQuery2(rec) == rec.url.base \in {YahooUrl(2, "^BVSP"), YahooUrl(2, "BOVA11.SA")}

\* C22: _yahoo_chart returns an empty series only after query1 and then
\* query2 have been tried and neither gave usable data: the record of every
\* call that came back empty is that of query2, the second GET.
C22_EmptyOnlyAfterBothHosts ==
    fn = "ibov" => \A i \in YahooRecords : ~logs[i].ok => OfQuery2(logs[i])

\* C22, the part that holds: query2 is called only after query1, and a
\* series from query1 is returned without query2 being called; while only
\* _yahoo_chart has been called, each call cost one GET, and one more where
\* its record is query2's.
C22_Query2OnlyAfterQuery1 ==
    (fn = "ibov" /\ YahooRecords = 1..Len(logs) /\ (pc[1] = "yahoo" \/ pc = Done)) =>
        /\ http = Len(logs) + Cardinality({i \in YahooRecords : OfQuery2(logs[i])})
        /\ \A i \in YahooRecords : (logs[i].ok /\ ~OfQuery2(logs[i])) => i = Len(logs)

(***************************************************************************)
(* The cached functions over time (Spec).                                  *)
(***************************************************************************)
\* The quiet-hours state of the session: ACTIVE from 19:00 to 07:00
QuietHoursActive == hour >= 19 \/ hour < 7

\* C4: a request to a cached function less than ttl after the function last
\* ran does not run it, makes no network call and returns the stored result;
\* a request at or after ttl since then runs it.
C4_OneFetchPerTtl ==
    (last.cached /\ last.prev.at >= 0) =>
        IF last.at - last.prev.at < TTL
        THEN ~last.ran /\ last.gets = 0 /\ last.value = cache[last.key].value
        ELSE last.ran

\* C5: what a fetch returns is stored, empty or not, with the time of the
\* fetch; and less than ttl after a total failure a request that is not
\* forced makes no network call.
C5_FailureHeldForTtl ==
    /\ (last.cached /\ last.ran /\ ~last.raised)
       => cache[last.key] = [at |-> last.at, value |-> last.value]
    /\ (/\ last.key /= "none" /\ ~last.force
        /\ last.prev.at >= 0 /\ last.prev.empty /\ ~last.prev.raised
        /\ last.at - last.prev.at < TTL)
       => last.gets = 0

\* C6: while the quiet-hours state is ACTIVE no request makes a network call,
\* and a request for a quantity never fetched yields an empty series, a null
\* source label and no attempt record.  (What av_fx_intraday returns beside
\* the series names its grain, not its source.)
C6_NoNetworkWhenQuiet ==
    QuietHoursActive =>
        /\ netCalls = 0
        /\ (last.key /= "none" /\ last.prev.at < 0)
           => /\ last.value.df = EmptyDF /\ last.nrecs = 0 /\ ~last.raised
              /\ last.key /= "fx" => last.value.src = None

\* C12: a forced IBOV request runs the resolver against the network whether
\* or not a fresh entry exists, and it runs no other quantity's fetch: the
\* other functions' entries and last runs are as they were.
C12_ForceBypassesCache ==
    [][(last'.key = "ibov" /\ last'.force)
       => /\ last'.ran /\ last'.gets > 0
          /\ \A k \in Keys \ {"ibov"} : cache'[k] = cache[k] /\ fetched'[k] = fetched[k]]_vars

\* A forced request finds a fresh IBOV entry and a stale USD/BRL entry
C12_Witness ==
    /\ last.key = "ibov" /\ last.force /\ ~last.debug /\ last.ran
    /\ Fresh(cache["ibov"], now) /\ cache["ibov"].value.df /= EmptyDF
    /\ cache["fx"].at >= 0 /\ ~Fresh(cache["fx"], now)

\* C17: what a request that is neither forced nor debug returns carries the
\* attempt records of the fetch that produced the series, on a miss as on a
\* fresh hit.
C17_CachedResultCarriesDiagnostics ==
    (last.key = "ibov" /\ last.cached /\ ~last.raised)
    => last.nrecs = fetched["ibov"].nrecs

C13_OneFetchInFlight == Cardinality({u \in Sessions : Fetching(u)}) <= 1

\* C13, the part that holds: of the fetches run inside ibov_series_cached at
\* most one is in flight, its session holding the compute lock.
C13_OneCachedFetchInFlight ==
    /\ Cardinality({u \in Sessions : Fetching(u) /\ conc.via[u] = "cache"}) <= 1
    /\ \A u \in Sessions : (Fetching(u) /\ conc.via[u] = "cache") => conc.lock = u

(***************************************************************************)
(* The render pass (SpecPass).                                             *)
(***************************************************************************)
Claimed == {"fx", "calendar", "heatmap", "ibov", "spy", "btc", "news"}

\* C14: the failure of one quantity never aborts the pass: whatever the
\* outcomes, the pass is not aborted, a quantity whose fetch gave no data
\* shows an unavailable state, and at the end every quantity was rendered.
C14_PassNeverAborts ==
    /\ pass.state /= "aborted"
    /\ \A name \in Claimed \cap pass.nodata : pass.shown[Quantity(name)] \in {"warning", "blank"}
    /\ pass.state = "ended" => \A name \in Claimed : pass.shown[Quantity(name)] /= "none"

\* C14, the part that holds: a pass that no payload aborts renders every part.
C14_EndedPassRenderedAll ==
    pass.state = "ended" => \A i \in 1..Len(Order) : pass.shown[i] /= "none"

\* C15: every fetch ends even if a provider never answers: while a call is
\* in flight its timeout can pass, and that timeout is one the code sets.
C15_EveryCallBounded ==
    (pass.state = "running" /\ pass.wait /= "none") =>
        (ENABLED TimeOut /\ ExplicitTimeout(pass.wait))

\* C15, the part that holds: no call is made twice, so a pass makes at most
\* the calls of its parts' plans.
C15_BoundedCalls ==
    /\ pass.n <= Len(CurrentPlan)
    /\ pass.calls <= Len(Plan("net", pass.keys)) + Len(Plan("news", pass.keys))
                     + Len(Plan("fx", pass.keys)) + Len(Plan("calendar", pass.keys))
                     + Len(Plan("heatmap", pass.keys)) + Len(Plan("ibov", pass.keys))
                     + Len(Plan("spy", pass.keys)) + Len(Plan("btc", pass.keys))
                     + Len(Plan("more", pass.keys))

(***************************************************************************)
(* The series an adapter makes of a payload (SpecIngest).                  *)
(***************************************************************************)
StrictlyIncreasing(df) == \A i \in 1..(Len(df) - 1) : df[i].dt < df[i + 1].dt
NonDecreasing(df) == \A i \in 1..(Len(df) - 1) : df[i].dt <= df[i + 1].dt
NoMissing(df) == \A i \in 1..Len(df) : df[i].close /= None

\* C24: whatever the payload (rows out of order, repeated, without a
\* close), the series an adapter returns is strictly increasing by
\* timestamp, so without two rows of one timestamp, and no close in it is
\* missing or NaN.
C24_StrictlyIncreasingNoMissing ==
    ing.pc = "done" => (StrictlyIncreasing(ing.out) /\ NoMissing(ing.out))

\* C24, the part that holds: every series is in the order of its
\* timestamps; but for Binance's it has no close missing; the rows of a
\* series of Alpha Vantage have distinct timestamps.
C24_SortedAndDropped ==
    ing.pc = "done" =>
        /\ NonDecreasing(ing.out)
        /\ ing.adapter /= "binance" => NoMissing(ing.out)
        /\ ing.adapter = "alphavantage" => StrictlyIncreasing(ing.out)

(***************************************************************************)
(* The two-endpoint adapters of Alpha Vantage (SpecAdapter).               *)
(***************************************************************************)
AvReturned ==
    adp.pc = "done" /\ adp.name \in {"av_fx_intraday", "av_crypto_series"}

\* C23: av_fx_intraday and av_crypto_series ask the intraday endpoint first
\* and the daily one only if intraday gave an error or nothing; the label is
\* "intraday" or "daily" exactly when the series returned is non-empty and
\* came from that endpoint, "empty" or "no-key" exactly when it is empty.
C23_LabelTellsTheSeries ==
    AvReturned =>
        /\ adp.out.gets = 2 => (adp.hasKey /\ adp.k1 /= "data")
        /\ adp.out.src = "intraday" <=> (adp.out.df /= EmptyDF /\ adp.out.gets = 1)
        /\ adp.out.src = "daily" <=> (adp.out.df /= EmptyDF /\ adp.out.gets = 2)
        /\ adp.out.src \in {"empty", "no-key"} <=> adp.out.df = EmptyDF

\* C23, the part that holds: intraday first, daily only after intraday gave
\* no series; a non-empty series carries the label of its endpoint, and
\* "no-key" and "empty" go with an empty series.
C23_IntradayFirst ==
    AvReturned =>
        /\ adp.out.gets = (IF ~adp.hasKey THEN 0 ELSE IF adp.k1 = "data" THEN 1 ELSE 2)
        /\ adp.out.df /= EmptyDF => adp.out.src = (IF adp.out.gets = 1 THEN "intraday" ELSE "daily")
        /\ adp.out.src = "intraday" => (adp.out.df /= EmptyDF /\ adp.k1 = "data")
        /\ adp.out.src \in {"empty", "no-key"} => adp.out.df = EmptyDF
        /\ adp.out.src = "no-key" <=> ~adp.hasKey

(***************************************************************************)
(* The adapters that read a credential (SpecAdapter).                      *)
(***************************************************************************)
\* C11 (as stated): with its credential absent an adapter returns an empty
\* result and makes no network call; the brapi adapter with its token too.
C11_NoKeyNoCall ==
    (adp.pc = "done" /\ ~adp.hasKey) => (adp.out.gets = 0 /\ adp.out.df = EmptyDF)

\* C11, the adapters it holds for: with its key absent an adapter of Alpha
\* Vantage, FMP or NewsAPI returns an empty result and makes no network call;
\* the brapi adapter makes its GET without the token.
C11_RequiredKeyNoCall ==
    (adp.pc = "done" /\ ~adp.hasKey) =>
        IF adp.name = "_brapi_daily_series" THEN adp.out.gets = 1
        ELSE adp.out.gets = 0 /\ adp.out.df = EmptyDF

C11_Witness ==
    /\ adp.pc = "done" /\ ~adp.hasKey
    /\ adp.name = "av_equity_intraday" /\ adp.k1 = "data"
    /\ adp.out = [df |-> EmptyDF, src |-> "", gets |-> 0]

C11_WitnessBrapi ==
    /\ adp.pc = "done" /\ ~adp.hasKey
    /\ adp.name = "_brapi_daily_series" /\ adp.k1 = "data"
    /\ adp.out = [df |-> Sample, src |-> "1mo/1d", gets |-> 1]

====
